---- MODULE Spec2Model ----
(***************************************************************************)
(* A model of the bulk-submission client of the Brain API                  *)
(* (simulator/alpha_submitter.py) and of the JSON handlers of the web      *)
(* blueprint (blueprints/alpha_miner.py).                                  *)
(*                                                                         *)
(*   FilterSpec  filter_eligible_alphas with check_submission_eligibility  *)
(*   SubmitSpec  submit with its inner submit_inner and the re-login       *)
(*   AuthSpec    login and create_brain_session                            *)
(*   PageSpec    get_user_alphas                                           *)
(*   SelectSpec  the selection of option [S] of main                       *)
(*   BatchSpec   batch_submit_alphas with submit_alpha and submit          *)
(*   MenuSpec    option 1 of main: scan, filter, choose, confirm, submit   *)
(*   WebSpec     get_resources, generate_alpha, backtest_alpha,            *)
(*               optimize_alpha and check_simulation                       *)
(*                                                                         *)
(* The parts have their own variables; each specification starts the       *)
(* others at rest and leaves them there.                                   *)
(***************************************************************************)
EXTENDS Integers, Sequences, FiniteSets, TLC

VARIABLES
    \* filter_eligible_alphas
    alphas,             \* the input list; each alpha is a record with its id
    i,                  \* number of alphas the for loop has consumed
    fpc,                \* position in the loop: "loop", "parse", "done"
    alpha_id,           \* alpha.get('id') of the current iteration
    reply,              \* how the last eligibility request was answered
    check_result,       \* what check_submission_eligibility returned
    inspected,          \* number of checks the parse loop looked at
    eligible,
    already_submitted,
    failed_checks,
    checked,            \* ids for which an eligibility POST was issued, in order
    \* submit / submit_inner
    spc,                \* position: "post", "ratelimit", "poll", "except", "returned", "done"
    sub_alpha_id,       \* the alpha_id submit was called with
    s,                  \* the session submit was called with
    cur,                \* the session of the running submit_inner frame
    sessions,           \* number of sessions login() has produced so far
    new_session,        \* what the last login() of the except clause returned
    result,             \* the last response held by the running frame
    returned,           \* what submit returned
    attempt_count,
    req,                \* the last request sent: method, session, alpha
    posts,              \* POSTs sent to /alphas/{id}/submit
    gets,               \* GET polls sent to /alphas/{id}/submit
    headers_seen,       \* responses that carried Retry-After
    header_secs,        \* sum of the readable Retry-After values received
    rate_slept,         \* seconds slept in the rate-limit loop
    cooldowns,          \* cooldown sleeps taken
    cooldown_slept,     \* seconds slept in cooldowns
    failures,           \* exceptions caught by submit_inner
    relogins,           \* re-logins that produced a session
    \* the session providers
    provider,           \* the provider called last: "login", "create_brain_session"
    credentials,        \* whether an email and a password were available
    auth_reply,         \* the answer of POST /authentication
    outcome,            \* what the provider returned or raised
    calls,              \* number of provider calls made
    issued,             \* number of sessions the providers handed out
    \* get_user_alphas
    page_limit,         \* the limit get_user_alphas was called with
    offset,
    all_alphas,
    ppc,                \* position: "loop", "break", "done"
    page_offsets,       \* the offsets requested, in order
    pages,              \* how the page requests were answered, in order
    page_result,        \* what get_user_alphas returned
    \* main, option [S]
    selection,          \* the line typed at the prompt
    sel_eligible,       \* the eligible alphas shown on the screen
    selected_indices,
    alpha_ids,          \* the ids handed to batch_submit_alphas
    sel_pc,             \* "input", "invalid", "none", "confirm", "batch", "cancelled"
    confirm,            \* the answer to the confirmation prompt
    \* the JSON handlers of the blueprint
    handler,            \* the handler that serves the current request
    wpc,                \* position in the handler; "idle", "responded" between requests
    wdata,              \* request.json
    wlog,               \* the calls the handler made, with their answers, in order
    resources,
    w_alpha_id,         \* the handler's local alpha_id
    response,           \* the answer of the handler: HTTP status and JSON body
    last_alpha_id,      \* the alpha_id the request just before returned, if a backtest
    served,             \* number of requests received
    \* batch_submit_alphas with submit_alpha
    batch_ids,          \* the alpha_ids the batch was called with
    bi,                 \* number of ids the for loop has finished
    bpc,                \* position: "loop", "submit", "parse", "raised", "done"
    session,            \* the session the batch was called with
    results,
    res,                \* what submit returned to the last submit_alpha
    res_body,           \* the text of that response
    batch_events,       \* the calls of submit_alpha and their returns, in order
    batch_returned,     \* what batch_submit_alphas returned
    \* main, option 1
    mpc,                \* "fetch", "filter", "select", "confirm", "batch", "menu"
    submit_choice,      \* the answer to "Your choice:"
    menu_alpha_ids,     \* the alpha_ids main hands to batch_submit_alphas
    menu_confirm,       \* the answer to the confirmation prompt of option 1
    mi,                 \* number of ids the batch started from the menu has dealt with
    submit_requests     \* ids for which submit sent its POST, in order

filterVars == <<alphas, i, fpc, alpha_id, reply, check_result, inspected,
                eligible, already_submitted, failed_checks, checked>>

submitVars == <<spc, sub_alpha_id, s, cur, sessions, new_session, result, returned, attempt_count,
                req, posts, gets, headers_seen, header_secs, rate_slept, cooldowns,
                cooldown_slept, failures, relogins>>

authVars == <<provider, credentials, auth_reply, outcome, calls, issued>>

pageVars == <<page_limit, offset, all_alphas, ppc, page_offsets, pages, page_result>>

selectVars == <<selection, sel_eligible, selected_indices, alpha_ids, sel_pc, confirm>>

webVars == <<handler, wpc, wdata, wlog, resources, w_alpha_id, response, last_alpha_id, served>>

batchVars == <<batch_ids, bi, bpc, session, results, res, res_body, batch_events, batch_returned>>

menuVars == <<mpc, submit_choice, menu_alpha_ids, menu_confirm, mi, submit_requests>>

vars == <<filterVars, submitVars, authVars, pageVars, selectVars, webVars, batchVars, menuVars>>

\* What the actions of one part leave alone.
exceptFilter == <<submitVars, authVars, pageVars, selectVars, webVars, batchVars, menuVars>>
exceptSubmit == <<filterVars, authVars, pageVars, selectVars, webVars, batchVars, menuVars>>
exceptAuth == <<filterVars, submitVars, pageVars, selectVars, webVars, batchVars, menuVars>>
exceptPage == <<filterVars, submitVars, authVars, selectVars, webVars, batchVars, menuVars>>
exceptSelect == <<filterVars, submitVars, authVars, pageVars, webVars, batchVars, menuVars>>
exceptWeb == <<filterVars, submitVars, authVars, pageVars, selectVars, batchVars, menuVars>>
exceptBatch == <<filterVars, authVars, pageVars, selectVars, webVars, menuVars>>
exceptMenu == <<submitVars, authVars, pageVars, selectVars, webVars, batchVars>>

(***************************************************************************)
(* Bounds of the model.                                                    *)
(***************************************************************************)
MaxAlphas == 2
MaxChecks == 2
MaxPolls == 2           \* Retry-After answers per run of submit
MaxAttempts == 3        \* attempts of the while loop of submit
MaxFailures == 2        \* exceptions raised by requests per run of submit
MaxCalls == 4           \* calls of a session provider
MaxSelectionLen == 4     \* characters of an enumerated selection line
MaxLines == 2           \* lines of an answer of the language model
MaxRequests == 2        \* requests the blueprint receives
MaxPages == 3           \* page requests per run of get_user_alphas
MaxMenuSelectionLen == 3 \* characters of a selection line typed in option 1

(***************************************************************************)
(* Values.                                                                 *)
(***************************************************************************)
NoId == 0                       \* alpha.get('id') is None or empty
Absent == "<absent>"            \* the key is not in the dict
ALREADY_SUBMITTED == "ALREADY_SUBMITTED"

\* One entry of is.checks: a name, a result, and an optional limit and value.
CheckSet ==
    { [name |-> ALREADY_SUBMITTED, result |-> "FAIL", limit |-> Absent, value |-> Absent],
      [name |-> ALREADY_SUBMITTED, result |-> "PASS", limit |-> Absent, value |-> Absent],
      [name |-> "LOW_SHARPE", result |-> "PASS", limit |-> "1.25", value |-> "1.60"],
      [name |-> "LOW_SHARPE", result |-> "FAIL", limit |-> "1.25", value |-> "0.80"],
      [name |-> "HIGH_TURNOVER", result |-> "FAIL", limit |-> "0.70", value |-> Absent] }

SeqsUpTo(S, n) == UNION { [1..k -> S] : k \in 0..n }

\* The JSON bodies a 200 answer can carry.
\*   "empty"     {}
\*   "noIs"      a non-empty object without the key 'is'
\*   "noChecks"  an object whose 'is' has no key 'checks'
\*   "checks"    an object with is.checks
Body(kind, checks) == [kind |-> kind, checks |-> checks]
NoneResult == Body("None", << >>)
JsonBodies ==
    { Body(k, << >>) : k \in {"empty", "noIs", "noChecks"} }
        \cup { Body("checks", cs) : cs \in SeqsUpTo(CheckSet, MaxChecks) }

\* How the server answers POST /alphas/{id}/submit.
\*   "exception"  the request raises
\*   "non200"     any status other than 200
\*   "notjson"    200 whose body response.json() cannot parse
\*   "ok"         200 with a JSON body
Replies ==
    { [kind |-> k, body |-> NoneResult] : k \in {"exception", "non200", "notjson"} }
        \cup { [kind |-> "ok", body |-> b] : b \in JsonBodies }
        \cup { [kind |-> "non200", body |-> b] : b \in JsonBodies }

AlphaLists ==
    UNION { { [k \in 1..n |-> [id |-> IF k \in withId THEN k ELSE NoId]] :
                withId \in SUBSET (1..n) } : n \in 0..MaxAlphas }

(***************************************************************************)
(* check_submission_eligibility                                            *)
(***************************************************************************)
check_submission_eligibility(r) ==
    IF r.kind = "ok" THEN r.body ELSE NoneResult

\* Python truth value of the returned data: None and {} are false.
Truthy(cr) == cr.kind \notin {"None", "empty"}

\* check.get(field, 'N/A')
GetOrNA(check, field) == IF check[field] = Absent THEN "N/A" ELSE check[field]

\* f"{check['name']}: limit={...}, value={...}"
Reason(check) ==
    <<check.name, ": limit=", GetOrNA(check, "limit"), ", value=", GetOrNA(check, "value")>>

\* ParseChecks with the two tests in the other order: a FAIL result is looked
\* at before the name, so a failing ALREADY_SUBMITTED check becomes a reason.
RECURSIVE ParseChecksResultFirst(_, _, _)
ParseChecksResultFirst(checks, k, acc) ==
    IF k > Len(checks) THEN acc
    ELSE LET check == checks[k] IN
         IF check.result = "FAIL"
         THEN ParseChecksResultFirst(checks, k + 1,
                 [acc EXCEPT !.is_eligible = FALSE,
                             !.fail_reasons = Append(@, Reason(check)),
                             !.inspected = k])
         ELSE IF check.name = ALREADY_SUBMITTED
         THEN [acc EXCEPT !.is_eligible = FALSE, !.already = TRUE, !.inspected = k]
         ELSE ParseChecksResultFirst(checks, k + 1, [acc EXCEPT !.inspected = k])

\* ParseChecks that leaves the loop at the first failing check, as the loop of
\* submit_alpha does.
RECURSIVE ParseChecksFirstFail(_, _, _)
ParseChecksFirstFail(checks, k, acc) ==
    IF k > Len(checks) THEN acc
    ELSE LET check == checks[k] IN
         IF check.name = ALREADY_SUBMITTED
         THEN [acc EXCEPT !.is_eligible = FALSE, !.already = TRUE, !.inspected = k]
         ELSE IF check.result = "FAIL"
         THEN [acc EXCEPT !.is_eligible = FALSE,
                          !.fail_reasons = Append(@, Reason(check)),
                          !.inspected = k]
         ELSE ParseChecksFirstFail(checks, k + 1, [acc EXCEPT !.inspected = k])

\* The for loop over check_result['is']['checks'], from position k on.
\* acc carries is_eligible, fail_reasons, whether the ALREADY_SUBMITTED branch
\* ran, and the number of checks looked at.
RECURSIVE ParseChecks(_, _, _)
ParseChecks(checks, k, acc) ==
    IF k > Len(checks) THEN acc
    ELSE LET check == checks[k] IN
         IF check.name = ALREADY_SUBMITTED
         THEN [acc EXCEPT !.is_eligible = FALSE, !.already = TRUE, !.inspected = k]
         ELSE IF check.result = "FAIL"
         THEN ParseChecks(checks, k + 1,
                 [acc EXCEPT !.is_eligible = FALSE,
                             !.fail_reasons = Append(@, Reason(check)),
                             !.inspected = k])
         ELSE ParseChecks(checks, k + 1, [acc EXCEPT !.inspected = k])

ParseStart ==
    [is_eligible |-> TRUE, fail_reasons |-> << >>, already |-> FALSE, inspected |-> 0]

\* Lines 298-317: the loop runs only when 'is' and 'checks' are both present.
Parse(cr) ==
    IF cr.kind = "checks" THEN ParseChecks(cr.checks, 1, ParseStart) ELSE ParseStart

(***************************************************************************)
(* filter_eligible_alphas                                                  *)
(***************************************************************************)
FilterStart(list) ==
    /\ alphas = list
    /\ i = 0
    /\ fpc = "loop"
    /\ alpha_id = NoId
    /\ reply = "none"
    /\ check_result = NoneResult
    /\ inspected = 0
    /\ eligible = << >>
    /\ already_submitted = << >>
    /\ failed_checks = << >>
    /\ checked = << >>

\* An alpha without an id is skipped before any request is made.
FilterSkipNoId ==
    /\ fpc = "loop"
    /\ i < Len(alphas)
    /\ alphas[i + 1].id = NoId
    /\ i' = i + 1
    /\ alpha_id' = NoId
    /\ reply' = "none"
    /\ UNCHANGED <<alphas, fpc, check_result, inspected, eligible,
                   already_submitted, failed_checks, checked>>
    /\ UNCHANGED exceptFilter

\* check_result = check_submission_eligibility(s, alpha_id)
FilterCheck ==
    /\ fpc = "loop"
    /\ i < Len(alphas)
    /\ alphas[i + 1].id # NoId
    /\ \E r \in Replies :
        /\ reply' = r.kind
        /\ check_result' = check_submission_eligibility(r)
    /\ i' = i + 1
    /\ alpha_id' = alphas[i + 1].id
    /\ checked' = Append(checked, alphas[i + 1].id)
    /\ fpc' = "parse"
    /\ UNCHANGED <<alphas, inspected, eligible, already_submitted, failed_checks>>
    /\ UNCHANGED exceptFilter

\* FilterUnchecked with break in the place of continue.
FilterUncheckedBreak ==
    /\ fpc = "parse"
    /\ ~Truthy(check_result)
    /\ fpc' = "done"
    /\ inspected' = 0
    /\ UNCHANGED <<alphas, i, alpha_id, reply, check_result, eligible,
                   already_submitted, failed_checks, checked>>
    /\ UNCHANGED exceptFilter

\* if not check_result: continue
FilterUnchecked ==
    /\ fpc = "parse"
    /\ ~Truthy(check_result)
    /\ fpc' = "loop"
    /\ inspected' = 0
    /\ UNCHANGED <<alphas, i, alpha_id, reply, check_result, eligible,
                   already_submitted, failed_checks, checked>>
    /\ UNCHANGED exceptFilter

\* Lines 298-337: parse the checks and file the alpha. The pause of 0.3 s that
\* ends the iteration changes no state.
FilterClassify ==
    /\ fpc = "parse"
    /\ Truthy(check_result)
    /\ LET p == Parse(check_result)
           alpha == alphas[i]
       IN /\ inspected' = p.inspected
          /\ already_submitted' =
                IF p.already
                THEN Append(already_submitted,
                        [id |-> alpha_id, alpha |-> alpha, reason |-> "Already submitted"])
                ELSE already_submitted
          /\ eligible' =
                IF p.is_eligible
                THEN Append(eligible,
                        [id |-> alpha_id, alpha |-> alpha, check_result |-> check_result])
                ELSE eligible
          /\ failed_checks' =
                IF ~p.is_eligible /\ p.fail_reasons # << >>
                THEN Append(failed_checks,
                        [id |-> alpha_id, alpha |-> alpha, reasons |-> p.fail_reasons])
                ELSE failed_checks
    /\ fpc' = "loop"
    /\ UNCHANGED <<alphas, i, alpha_id, reply, check_result, checked>>
    /\ UNCHANGED exceptFilter

\* return eligible, already_submitted, failed_checks
FilterReturn ==
    /\ fpc = "loop"
    /\ i = Len(alphas)
    /\ fpc' = "done"
    /\ UNCHANGED <<alphas, i, alpha_id, reply, check_result, inspected, eligible,
                   already_submitted, failed_checks, checked>>
    /\ UNCHANGED exceptFilter

FilterNext ==
    \/ FilterSkipNoId
    \/ FilterCheck
    \/ FilterUnchecked
    \/ FilterClassify
    \/ FilterReturn


(***************************************************************************)
(* login                                                                   *)
(***************************************************************************)
Credentials == {"present", "missing"}
AuthStatuses == {200, 201, 204, 401, 500}
AuthReplies ==
    {[kind |-> "exception", status |-> 0]}
        \cup { [kind |-> "http", status |-> st] : st \in AuthStatuses }

\* response.raise_for_status() raises for the statuses 400..599.
RaisesForStatus(status) == status >= 400 /\ status < 600

\* login(): None without an email or a password, None when the request or
\* raise_for_status raises (the status is printed), the session otherwise.
login(cred, a) ==
    IF cred = "missing" THEN [kind |-> "None", status |-> 0]
    ELSE IF a.kind = "exception" THEN [kind |-> "None", status |-> 0]
    ELSE IF RaisesForStatus(a.status) THEN [kind |-> "None", status |-> a.status]
    ELSE [kind |-> "session", status |-> a.status]

(***************************************************************************)
(* submit and submit_inner                                                 *)
(***************************************************************************)
CooldownSeconds == 120
NoHeader == -1                  \* the response has no Retry-After header
BadHeader == -2                 \* a Retry-After that float() or time.sleep() rejects
RetryAfters == {NoHeader, BadHeader, 0, 2}
SubmitStatuses == {200, 403, 429, 500}
NoResponse == [kind |-> "unbound", status |-> 0, retry_after |-> NoHeader]
NoneResponse == [kind |-> "None", status |-> 0, retry_after |-> NoHeader]
SubmitReplies ==
    { [kind |-> "http", status |-> st, retry_after |-> ra] :
        st \in SubmitStatuses, ra \in RetryAfters }
NoSession == 0                  \* login() returned None
NoRequest == [method |-> "none", session |-> 0, alpha |-> 0]
SubmitAlphaIds == {1, 2}

SubmitStart(id) ==
    /\ spc = "post"
    /\ sub_alpha_id = id
    /\ s = 1
    /\ cur = 1
    /\ sessions = 1
    /\ new_session = NoSession
    /\ result = NoResponse
    /\ returned = NoResponse
    /\ attempt_count = 1
    /\ req = NoRequest
    /\ posts = 0
    /\ gets = 0
    /\ headers_seen = 0
    /\ header_secs = 0
    /\ rate_slept = 0
    /\ cooldowns = 0
    /\ cooldown_slept = 0
    /\ failures = 0
    /\ relogins = 0

HasRetryAfter(r) == r.retry_after # NoHeader

\* Bookkeeping of a received response.
Received(r) ==
    /\ result' = r
    /\ headers_seen' = IF HasRetryAfter(r) THEN headers_seen + 1 ELSE headers_seen
    /\ header_secs' = IF r.retry_after >= 0 THEN header_secs + r.retry_after ELSE header_secs

\* The request raised: control passes to the except clause.
Raised ==
    /\ failures < MaxFailures
    /\ failures' = failures + 1
    /\ spc' = "except"
    /\ UNCHANGED <<result, headers_seen, header_secs>>

\* result = s.post(.../alphas/{alpha_id}/submit)
SubmitPost ==
    /\ spc = "post"
    /\ posts' = posts + 1
    /\ req' = [method |-> "POST", session |-> cur, alpha |-> sub_alpha_id]
    /\ \/ \E r \in SubmitReplies :
            /\ HasRetryAfter(r) => headers_seen < MaxPolls
            /\ Received(r)
            /\ spc' = "ratelimit"
            /\ UNCHANGED failures
       \/ Raised
    /\ UNCHANGED <<new_session, sub_alpha_id, s, cur, sessions, returned, attempt_count, gets,
                   rate_slept, cooldowns, cooldown_slept, relogins>>
    /\ UNCHANGED exceptSubmit

\* RateLimitWait that sleeps one second whatever the header says.
RateLimitWaitFixed ==
    /\ spc = "ratelimit"
    /\ HasRetryAfter(result)
    /\ IF result.retry_after = BadHeader
       THEN /\ Raised
            /\ UNCHANGED rate_slept
       ELSE /\ rate_slept' = rate_slept + 1
            /\ spc' = "poll"
            /\ UNCHANGED <<result, headers_seen, header_secs, failures>>
    /\ UNCHANGED <<new_session, sub_alpha_id, s, cur, sessions, returned, attempt_count, req, posts,
                   gets, cooldowns, cooldown_slept, relogins>>
    /\ UNCHANGED exceptSubmit

\* The header is there: wait_time = float(...); time.sleep(wait_time).
\* A value float() or time.sleep() rejects raises inside the try block.
RateLimitWait ==
    /\ spc = "ratelimit"
    /\ HasRetryAfter(result)
    /\ IF result.retry_after = BadHeader
       THEN /\ Raised
            /\ UNCHANGED rate_slept
       ELSE /\ rate_slept' = rate_slept + result.retry_after
            /\ spc' = "poll"
            /\ UNCHANGED <<result, headers_seen, header_secs, failures>>
    /\ UNCHANGED <<new_session, sub_alpha_id, s, cur, sessions, returned, attempt_count, req, posts,
                   gets, cooldowns, cooldown_slept, relogins>>
    /\ UNCHANGED exceptSubmit

\* result = s.get(.../alphas/{alpha_id}/submit)
SubmitPoll ==
    /\ spc = "poll"
    /\ gets' = gets + 1
    /\ req' = [method |-> "GET", session |-> cur, alpha |-> sub_alpha_id]
    /\ \/ \E r \in SubmitReplies :
            /\ HasRetryAfter(r) => headers_seen < MaxPolls
            /\ Received(r)
            /\ spc' = "ratelimit"
            /\ UNCHANGED failures
       \/ Raised
    /\ UNCHANGED <<new_session, sub_alpha_id, s, cur, sessions, returned, attempt_count, posts,
                   rate_slept, cooldowns, cooldown_slept, relogins>>
    /\ UNCHANGED exceptSubmit

\* No header: break, return result.
RateLimitDone ==
    /\ spc = "ratelimit"
    /\ ~HasRetryAfter(result)
    /\ spc' = "returned"
    /\ UNCHANGED <<new_session, sub_alpha_id, s, cur, sessions, result, returned, attempt_count, req,
                   posts, gets, headers_seen, header_secs, rate_slept, cooldowns,
                   cooldown_slept, failures, relogins>>
    /\ UNCHANGED exceptSubmit

\* Relogin that replays the POST on the session that failed.
ReloginKeepsSession ==
    /\ spc = "except"
    /\ \E cred \in Credentials, a \in AuthReplies :
        IF login(cred, a).kind = "None"
        THEN /\ new_session' = NoSession
             /\ result' = NoneResponse
             /\ spc' = "returned"
             /\ UNCHANGED <<cur, sessions, relogins>>
        ELSE /\ sessions' = sessions + 1
             /\ new_session' = sessions + 1
             /\ cur' = cur
             /\ relogins' = relogins + 1
             /\ result' = NoResponse
             /\ spc' = "post"
    /\ UNCHANGED <<sub_alpha_id, s, returned, attempt_count, req, posts, gets,
                   headers_seen, header_secs, rate_slept, cooldowns, cooldown_slept,
                   failures>>
    /\ UNCHANGED exceptSubmit

\* except Exception: new_session = login(); None ends the frame with None,
\* a session starts submit_inner(new_session, alpha_id).
Relogin ==
    /\ spc = "except"
    /\ \E cred \in Credentials, a \in AuthReplies :
        IF login(cred, a).kind = "None"
        THEN /\ new_session' = NoSession
             /\ result' = NoneResponse
             /\ spc' = "returned"
             /\ UNCHANGED <<cur, sessions, relogins>>
        ELSE /\ sessions' = sessions + 1
             /\ new_session' = sessions + 1
             /\ cur' = sessions + 1
             /\ relogins' = relogins + 1
             /\ result' = NoResponse
             /\ spc' = "post"
    /\ UNCHANGED <<sub_alpha_id, s, returned, attempt_count, req, posts, gets,
                   headers_seen, header_secs, rate_slept, cooldowns, cooldown_slept,
                   failures>>
    /\ UNCHANGED exceptSubmit

\* ReturnsResponse without the 403 branch.
ReturnsResponseOnly200(r) == r.status = 200

\* The statuses on which the while loop of submit returns the response.
ReturnsResponse(r) == r.status = 200 \/ r.status = 403

\* result is None, or its status is 200 or 403: return.
SubmitReturn ==
    /\ spc = "returned"
    /\ result.kind = "None" \/ ReturnsResponse(result)
    /\ returned' = result
    /\ spc' = "done"
    /\ UNCHANGED <<new_session, sub_alpha_id, s, cur, sessions, result, attempt_count, req, posts, gets,
                   headers_seen, header_secs, rate_slept, cooldowns, cooldown_slept,
                   failures, relogins>>
    /\ UNCHANGED exceptSubmit

\* SubmitCooldown whose wait grows with the attempt number.
SubmitCooldownBackoff ==
    /\ spc = "returned"
    /\ result.kind = "http"
    /\ ~ReturnsResponse(result)
    /\ attempt_count < MaxAttempts
    /\ cooldowns' = cooldowns + 1
    /\ cooldown_slept' = cooldown_slept + CooldownSeconds * attempt_count
    /\ attempt_count' = attempt_count + 1
    /\ cur' = s
    /\ result' = NoResponse
    /\ spc' = "post"
    /\ UNCHANGED <<new_session, sub_alpha_id, s, sessions, returned, req, posts, gets, headers_seen,
                   header_secs, rate_slept, failures, relogins>>
    /\ UNCHANGED exceptSubmit

\* SubmitCooldown that returns the response in the place of retrying.
SubmitGivesUp ==
    /\ spc = "returned"
    /\ result.kind = "http"
    /\ ~ReturnsResponse(result)
    /\ returned' = result
    /\ spc' = "done"
    /\ UNCHANGED <<new_session, sub_alpha_id, s, cur, sessions, result, attempt_count, req,
                   posts, gets, headers_seen, header_secs, rate_slept, cooldowns,
                   cooldown_slept, failures, relogins>>
    /\ UNCHANGED exceptSubmit

\* Any other status: time.sleep(120); attempt_count += 1; continue.
\* The next attempt calls submit_inner(s, alpha_id) with the session of submit.
SubmitCooldown ==
    /\ spc = "returned"
    /\ result.kind = "http"
    /\ ~ReturnsResponse(result)
    /\ attempt_count < MaxAttempts
    /\ cooldowns' = cooldowns + 1
    /\ cooldown_slept' = cooldown_slept + CooldownSeconds
    /\ attempt_count' = attempt_count + 1
    /\ cur' = s
    /\ result' = NoResponse
    /\ spc' = "post"
    /\ UNCHANGED <<new_session, sub_alpha_id, s, sessions, returned, req, posts, gets, headers_seen,
                   header_secs, rate_slept, failures, relogins>>
    /\ UNCHANGED exceptSubmit

\* The steps the program takes on its own, without waiting for the server.
SubmitStep ==
    \/ RateLimitWait
    \/ RateLimitDone
    \/ SubmitReturn
    \/ SubmitCooldown

SubmitNext ==
    \/ SubmitPost
    \/ SubmitPoll
    \/ Relogin
    \/ RateLimitWait
    \/ RateLimitDone
    \/ SubmitReturn
    \/ SubmitCooldown

(***************************************************************************)
(* create_brain_session and the provider calls                             *)
(***************************************************************************)
\* create_brain_session(): ValueError without credentials, the exception of
\* the request when it raises, ValueError("Authentication failed: <status>")
\* unless the status is 200 or 201, the session otherwise.
create_brain_session(cred, a) ==
    IF cred = "missing" THEN [kind |-> "ValueError", status |-> 0]
    ELSE IF a.kind = "exception" THEN [kind |-> "exception", status |-> 0]
    ELSE IF a.status \notin {200, 201} THEN [kind |-> "ValueError", status |-> a.status]
    ELSE [kind |-> "session", status |-> a.status]

NoReply == [kind |-> "none", status |-> 0]

AuthStart ==
    /\ provider = "none"
    /\ credentials = "present"
    /\ auth_reply = NoReply
    /\ outcome = NoReply
    /\ calls = 0
    /\ issued = 0

\* A call of login() of the CLI tool.
LoginCall ==
    /\ calls < MaxCalls
    /\ \E cred \in Credentials, a \in AuthReplies :
        /\ credentials' = cred
        /\ auth_reply' = IF cred = "missing" THEN NoReply ELSE a
        /\ outcome' = login(cred, a)
        /\ issued' = IF login(cred, a).kind = "session" THEN issued + 1 ELSE issued
    /\ provider' = "login"
    /\ calls' = calls + 1
    /\ UNCHANGED exceptAuth

\* A call of create_brain_session() of the web blueprint.
CreateBrainSessionCall ==
    /\ calls < MaxCalls
    /\ \E cred \in Credentials, a \in AuthReplies :
        /\ credentials' = cred
        /\ auth_reply' = IF cred = "missing" THEN NoReply ELSE a
        /\ outcome' = create_brain_session(cred, a)
        /\ issued' = IF create_brain_session(cred, a).kind = "session"
                     THEN issued + 1 ELSE issued
    /\ provider' = "create_brain_session"
    /\ calls' = calls + 1
    /\ UNCHANGED exceptAuth

AuthNext ==
    \/ LoginCall
    \/ CreateBrainSessionCall

(***************************************************************************)
(* get_user_alphas                                                         *)
(***************************************************************************)
page_size == 100

\* The ways GET /alphas?limit=..&offset=.. is answered: the request raises,
\* a status other than 200, a 200 whose body is not a JSON object, a 200
\* whose object has no 'results' key, a 200 with a page of n results.
PageSizes == {0, 40, 100, 120}

PageAnswers ==
    {[kind |-> "raise", status |-> 0, n |-> 0]}
        \cup {[kind |-> "status", status |-> st, n |-> 0] : st \in {401, 500}}
        \cup {[kind |-> "nojson", status |-> 200, n |-> 0]}
        \cup {[kind |-> "nokey", status |-> 200, n |-> 0]}
        \cup {[kind |-> "page", status |-> 200, n |-> n] : n \in PageSizes}

\* The limits a caller passes; every one is met within MaxPages full pages.
Limits == {1} \cup {50 * k : k \in 2..(2 * MaxPages - 1)}

\* The results of the page the server sends for an offset: the alphas at the
\* positions offset+1 .. offset+n of the user's alphas.
PageResults(o, n) == [k \in 1..n |-> o + k]

\* data.get('results', [])
ResultsOf(a, o) == IF a.kind = "page" THEN PageResults(o, a.n) ELSE << >>

PageStart(limit) ==
    /\ page_limit = limit
    /\ offset = 0
    /\ all_alphas = << >>
    /\ ppc = "loop"
    /\ page_offsets = << >>
    /\ pages = << >>
    /\ page_result = << >>

\* s.get or response.json() raises: the except clause returns [].
PageRaises ==
    /\ ppc = "loop"
    /\ Len(page_offsets) < MaxPages
    /\ \E a \in PageAnswers :
        /\ a.kind \in {"raise", "nojson"}
        /\ pages' = Append(pages, a)
    /\ page_offsets' = Append(page_offsets, offset)
    /\ page_result' = << >>
    /\ ppc' = "done"
    /\ UNCHANGED <<page_limit, offset, all_alphas>>
    /\ UNCHANGED exceptPage

\* response.status_code != 200: break
PageNot200 ==
    /\ ppc = "loop"
    /\ Len(page_offsets) < MaxPages
    /\ \E a \in PageAnswers :
        /\ a.kind = "status"
        /\ pages' = Append(pages, a)
    /\ page_offsets' = Append(page_offsets, offset)
    /\ ppc' = "break"
    /\ UNCHANGED <<page_limit, offset, all_alphas, page_result>>
    /\ UNCHANGED exceptPage

\* not results: break
PageEmpty ==
    /\ ppc = "loop"
    /\ Len(page_offsets) < MaxPages
    /\ \E a \in PageAnswers :
        /\ a.kind \in {"nokey", "page"}
        /\ ResultsOf(a, offset) = << >>
        /\ pages' = Append(pages, a)
    /\ page_offsets' = Append(page_offsets, offset)
    /\ ppc' = "break"
    /\ UNCHANGED <<page_limit, offset, all_alphas, page_result>>
    /\ UNCHANGED exceptPage

\* The loop exit of line 246 ignores the caller's limit.
PageExtendNoLimit ==
    /\ ppc = "loop"
    /\ Len(page_offsets) < MaxPages
    /\ \E a \in PageAnswers :
        LET page_results == ResultsOf(a, offset) IN
        /\ page_results # << >>
        /\ pages' = Append(pages, a)
        /\ all_alphas' = all_alphas \o page_results
        /\ IF Len(page_results) < page_size
              THEN ppc' = "break" /\ offset' = offset
              ELSE ppc' = "loop" /\ offset' = offset + page_size
    /\ page_offsets' = Append(page_offsets, offset)
    /\ UNCHANGED <<page_limit, page_result>>
    /\ UNCHANGED exceptPage

\* all_alphas.extend(page_results), then break on a short page or on the limit,
\* else advance the offset by one page.
PageExtend ==
    /\ ppc = "loop"
    /\ Len(page_offsets) < MaxPages
    /\ \E a \in PageAnswers :
        LET page_results == ResultsOf(a, offset) IN
        /\ page_results # << >>
        /\ pages' = Append(pages, a)
        /\ all_alphas' = all_alphas \o page_results
        /\ IF Len(page_results) < page_size \/ Len(all_alphas') >= page_limit
              THEN ppc' = "break" /\ offset' = offset
              ELSE ppc' = "loop" /\ offset' = offset + page_size
    /\ page_offsets' = Append(page_offsets, offset)
    /\ UNCHANGED <<page_limit, page_result>>
    /\ UNCHANGED exceptPage

\* return all_alphas
PageReturn ==
    /\ ppc = "break"
    /\ page_result' = all_alphas
    /\ ppc' = "done"
    /\ UNCHANGED <<page_limit, offset, all_alphas, page_offsets, pages>>
    /\ UNCHANGED exceptPage

PageNext ==
    \/ PageRaises
    \/ PageNot200
    \/ PageEmpty
    \/ PageExtend
    \/ PageReturn

(***************************************************************************)
(* main: the selection of option [S]                                       *)
(***************************************************************************)
\* A string is a sequence of characters.
Digits == {"0", "1", "2", "3", "4", "5", "6", "7", "8", "9"}

DigitValue(c) ==
    CASE c = "0" -> 0 [] c = "1" -> 1 [] c = "2" -> 2 [] c = "3" -> 3
      [] c = "4" -> 4 [] c = "5" -> 5 [] c = "6" -> 6 [] c = "7" -> 7
      [] c = "8" -> 8 [] c = "9" -> 9

\* The characters of the selections that are enumerated.
SelectionChars == {"0", "1", "2", ",", "-", " "}

\* The selections of the prompt's own example over ten eligible alphas.
ExampleSelections ==
    {<<"1", ",", "3", ",", "5", "-", "7">>,
     <<"1", ",", "3", ",", "5", "-", "7", ",", "1", "2">>}

ExampleEligible == 10

RECURSIVE strip(_)
\* str.strip()
strip(str) ==
    IF str = << >> THEN str
    ELSE IF Head(str) = " " THEN strip(Tail(str))
    ELSE IF str[Len(str)] = " " THEN strip(SubSeq(str, 1, Len(str) - 1))
    ELSE str

Contains(str, c) == \E k \in 1..Len(str) : str[k] = c

RECURSIVE split(_, _)
\* str.split(sep)
split(str, sep) ==
    IF ~Contains(str, sep) THEN <<str>>
    ELSE LET k == CHOOSE j \in 1..Len(str) :
                      str[j] = sep /\ \A h \in 1..(j - 1) : str[h] # sep
         IN  <<SubSeq(str, 1, k - 1)>> \o split(SubSeq(str, k + 1, Len(str)), sep)

RECURSIVE DecimalValue(_)
DecimalValue(str) ==
    IF str = << >> THEN 0
    ELSE 10 * DecimalValue(SubSeq(str, 1, Len(str) - 1)) + DigitValue(str[Len(str)])

\* int(str): surrounding blanks are ignored; anything but a non-empty run of
\* digits raises ValueError.
int(str) ==
    LET t == strip(str) IN
    IF t # << >> /\ \A k \in 1..Len(t) : t[k] \in Digits
       THEN [ok |-> TRUE, value |-> DecimalValue(t)]
       ELSE [ok |-> FALSE, value |-> 0]

ValueError == [ok |-> FALSE, indices |-> {}]

\* One part of the comma list: a range start-end or a single number.
ParsePart(part) ==
    IF Contains(part, "-")
       THEN LET pieces == split(part, "-") IN
            IF Len(pieces) # 2 THEN ValueError
            ELSE IF ~int(pieces[1]).ok \/ ~int(pieces[2]).ok THEN ValueError
            ELSE [ok |-> TRUE,
                  indices |-> int(pieces[1]).value .. int(pieces[2]).value]
       ELSE IF int(part).ok
               THEN [ok |-> TRUE, indices |-> {int(part).value}]
               ELSE ValueError

RECURSIVE ParseParts(_, _, _)
\* The for loop over selection.split(','): the first part that raises ends it.
ParseParts(parts, k, acc) ==
    IF k > Len(parts) THEN [ok |-> TRUE, indices |-> acc]
    ELSE LET p == ParsePart(strip(parts[k])) IN
         IF ~p.ok THEN ValueError
         ELSE ParseParts(parts, k + 1, acc \cup p.indices)

ParseSelection(str) == ParseParts(split(strip(str), ","), 1, {})

\* The eligible alphas as they are numbered on the screen.
EligibleList(n) == [k \in 1..n |-> [id |-> k]]

\* The orders in which a set can be iterated.
Orders(S) ==
    {q \in [1..Cardinality(S) -> S] : \A a, b \in DOMAIN q : a # b => q[a] # q[b]}

SelectionStart(str, n) ==
    /\ selection = str
    /\ sel_eligible = EligibleList(n)
    /\ selected_indices = {}
    /\ alpha_ids = << >>
    /\ sel_pc = "input"
    /\ confirm = ""

\* A part that is no number and no range: "Invalid selection".
SelectInvalid ==
    /\ sel_pc = "input"
    /\ ~ParseSelection(selection).ok
    /\ sel_pc' = "invalid"
    /\ UNCHANGED <<selection, sel_eligible, selected_indices, alpha_ids, confirm>>
    /\ UNCHANGED exceptSelect

\* The test of line 634 admits the index 0, which Python takes from the end
\* of the list.
SelectParsedFromZero ==
    /\ sel_pc = "input"
    /\ ParseSelection(selection).ok
    /\ selected_indices' = ParseSelection(selection).indices
    /\ \E order \in Orders({j \in selected_indices' : 0 <= j /\ j <= Len(sel_eligible)}) :
        alpha_ids' = [k \in DOMAIN order |->
                        IF order[k] = 0 THEN Len(sel_eligible)
                        ELSE sel_eligible[order[k]].id]
    /\ sel_pc' = IF alpha_ids' = << >> THEN "none" ELSE "confirm"
    /\ UNCHANGED <<selection, sel_eligible, confirm>>
    /\ UNCHANGED exceptSelect

\* The parse succeeded: the ids at the selected positions that exist, in the
\* order the set is iterated; none of them: "No valid alphas selected".
SelectParsed ==
    /\ sel_pc = "input"
    /\ ParseSelection(selection).ok
    /\ selected_indices' = ParseSelection(selection).indices
    /\ \E order \in Orders({j \in selected_indices' : 1 <= j /\ j <= Len(sel_eligible)}) :
        alpha_ids' = [k \in DOMAIN order |-> sel_eligible[order[k]].id]
    /\ sel_pc' = IF alpha_ids' = << >> THEN "none" ELSE "confirm"
    /\ UNCHANGED <<selection, sel_eligible, confirm>>
    /\ UNCHANGED exceptSelect

\* The answer to "Confirm submission? (yes/no)".
SelectConfirm ==
    /\ sel_pc = "confirm"
    /\ \E answer \in {"yes", "no"} :
        /\ confirm' = answer
        /\ sel_pc' = IF answer = "yes" THEN "batch" ELSE "cancelled"
    /\ UNCHANGED <<selection, sel_eligible, selected_indices, alpha_ids>>
    /\ UNCHANGED exceptSelect

SelectNext ==
    \/ SelectInvalid
    \/ SelectParsed
    \/ SelectConfirm

(***************************************************************************)
(* The JSON handlers of the blueprint: requests, answers, the session      *)
(***************************************************************************)
Handlers ==
    {"get_resources", "generate_alpha", "backtest_alpha", "optimize_alpha",
     "check_simulation"}

Providers == {"ollama", "deepseek", "openai", "other"}

WebAlphaIds == {1, 2}

None == "None"              \* Python's None, JSON's null

\* request.json: it raises (the body is no JSON), it is None, or it is an
\* object, of which the model keeps the keys that decide a branch.
RequestData(h) ==
    IF h = "get_resources"
       THEN {[kind |-> "unread", provider |-> "ollama", alpha_id |-> NoId]}
    ELSE {[kind |-> k, provider |-> "ollama", alpha_id |-> NoId] : k \in {"raises", "null"}}
         \cup IF h \in {"generate_alpha", "optimize_alpha"}
                 THEN {[kind |-> "dict", provider |-> p, alpha_id |-> NoId] : p \in Providers}
              ELSE IF h = "check_simulation"
                 THEN {[kind |-> "dict", provider |-> "ollama", alpha_id |-> a] :
                          a \in {NoId} \cup WebAlphaIds}
              ELSE {[kind |-> "dict", provider |-> "ollama", alpha_id |-> NoId]}

NoWebResponse == [http |-> 0, body |-> [success |-> FALSE]]

\* The error body is sent without its status, which makes it a 200.
FailureWithoutStatus(http, error) ==
    [http |-> 200, body |-> [success |-> FALSE, error |-> error]]

\* jsonify({'success': False, 'error': ...}), http
Failure(http, error) == [http |-> http, body |-> [success |-> FALSE, error |-> error]]

\* jsonify(body) with the default status
Success(body) == [http |-> 200, body |-> body]

\* str(e) of an exception that reached an except clause.
ExceptionText(what) ==
    CASE what = "ValueError" -> "Authentication failed or credentials missing"
      [] what = "exception" -> "the request raised"
      [] what = "AttributeError" -> "'NoneType' object has no attribute 'get'"
      [] what = "UnboundLocalError" -> "local variable 'api_url' referenced before assignment"
      [] what = "BadRequest" -> "the body is not JSON"
      [] what = "JSONDecodeError" -> "the answer is not the expected JSON"

Called(call, arg, answer) == [call |-> call, arg |-> arg, answer |-> answer]

WebStart ==
    /\ handler = "none"
    /\ wpc = "idle"
    /\ wdata = [kind |-> "unread", provider |-> "ollama", alpha_id |-> NoId]
    /\ wlog = << >>
    /\ resources = [datasets |-> << >>]
    /\ w_alpha_id = NoId
    /\ response = NoWebResponse
    /\ last_alpha_id = NoId
    /\ served = 0

\* A POST reaches one of the five routes.
Receive ==
    /\ wpc \in {"idle", "responded"}
    /\ served < MaxRequests
    /\ \E h \in Handlers :
        /\ handler' = h
        /\ \E d \in RequestData(h) : wdata' = d
        /\ wpc' = IF h \in {"get_resources", "backtest_alpha"} THEN "session" ELSE "start"
    /\ wlog' = << >>
    /\ resources' = [datasets |-> << >>]
    /\ w_alpha_id' = NoId
    /\ response' = NoWebResponse
    /\ served' = served + 1
    /\ last_alpha_id' = IF handler = "backtest_alpha" /\ response.body.success
                            THEN last_alpha_id ELSE NoId
    /\ UNCHANGED exceptWeb

\* Where a handler goes on once it holds a session.
AfterSession(h) ==
    CASE h = "get_resources" -> "datasets"
      [] h = "backtest_alpha" -> "create"
      [] h = "check_simulation" -> "fetch"

\* s = create_brain_session(); what it raises reaches the outer except.
\* backtest_alpha reads request.json before it.
CreateSession ==
    /\ wpc = "session"
    /\ IF handler = "backtest_alpha" /\ wdata.kind = "raises"
          THEN /\ response' = Failure(500, ExceptionText("BadRequest"))
               /\ wpc' = "responded"
               /\ UNCHANGED wlog
          ELSE \E cred \in Credentials, a \in AuthReplies :
                LET o == create_brain_session(cred, a) IN
                /\ wlog' = Append(wlog, Called("create_brain_session", "user_config.json", o.kind))
                /\ IF o.kind = "session"
                      THEN wpc' = AfterSession(handler) /\ UNCHANGED response
                      ELSE /\ response' = Failure(500, ExceptionText(o.kind))
                           /\ wpc' = "responded"
    /\ UNCHANGED <<handler, wdata, resources, w_alpha_id, last_alpha_id, served>>
    /\ UNCHANGED exceptWeb

(***************************************************************************)
(* get_resources                                                           *)
(***************************************************************************)
DatasetCap == 50
OperatorCap == 100

Take(seq, n) == SubSeq(seq, 1, IF Len(seq) < n THEN Len(seq) ELSE n)

\* The ways a GET of the Brain API is answered: the request raises, a status
\* other than 200, a 200 whose body is not a JSON object, a 200 whose object
\* lacks the key asked for, a 200 with what was asked for.
DatasetCounts == {0, 30, 40, 60}

DatasetAnswers ==
    {[kind |-> k, status |-> 200, n |-> 0] : k \in {"nojson", "nokey"}}
        \cup {[kind |-> "raise", status |-> 0, n |-> 0],
              [kind |-> "status", status |-> 500, n |-> 0]}
        \cup {[kind |-> "results", status |-> 200, n |-> n] : n \in DatasetCounts}

\* The n data sets the server lists for one value of theme, in its order.
DatasetResults(theme, n) == [k \in 1..n |-> [theme |-> theme, k |-> k]]

\* response.json().get('results', []) behind the test of the status
get_results(a, theme) ==
    IF a.kind = "results" THEN DatasetResults(theme, a.n) ELSE << >>

\* The two lists are joined and nothing is cut off.
datasetsUncapped(f, t) ==
    IF f.kind \in {"raise", "nojson"} \/ t.kind \in {"raise", "nojson"}
       THEN << >>
       ELSE get_results(f, "false") \o get_results(t, "true")

\* resources['datasets']: [] when anything in the block raises, else the
\* first 50 of the theme=false results followed by the theme=true results.
datasets(f, t) ==
    IF f.kind \in {"raise", "nojson"} \/ t.kind \in {"raise", "nojson"}
       THEN << >>
       ELSE Take(get_results(f, "false") \o get_results(t, "true"), DatasetCap)

\* operaters.csv: missing, unreadable, or n rows.
OperatorFiles ==
    {[kind |-> k, n |-> 0] : k \in {"missing", "raise"}}
        \cup {[kind |-> "rows", n |-> n] : n \in {0, 3, 120}}

\* resources['operators']
operators(file) ==
    IF file.kind = "rows"
       THEN Take([k \in 1..file.n |-> [name |-> k]], OperatorCap)
       ELSE << >>

\* GET /users/self
ProfileAnswers ==
    {[kind |-> k, status |-> 200, powerPoolEligible |-> "absent"] : k \in {"nojson"}}
        \cup {[kind |-> "raise", status |-> 0, powerPoolEligible |-> "absent"]}
        \cup {[kind |-> "status", status |-> st, powerPoolEligible |-> "absent"] :
                 st \in {401, 500}}
        \cup {[kind |-> "profile", status |-> 200, powerPoolEligible |-> e] :
                 e \in {"absent", "true", "false"}}

DefaultProfile == [can_submit_regular |-> TRUE, can_submit_power_pool |-> FALSE]

\* The user_profile built from a 200 answer.
user_profile(a) ==
    [username |-> "profile.get('username')", rank |-> "profile.get('rank')",
     can_submit_regular |-> TRUE,
     can_submit_power_pool |-> (a.powerPoolEligible = "true")]

\* Both data-set requests are sent before either answer is looked at.
ResourcesDatasets ==
    /\ wpc = "datasets"
    /\ \E f \in DatasetAnswers, t \in DatasetAnswers :
        /\ wlog' = IF f.kind = "raise"
                      THEN Append(wlog, Called("data-sets", "theme=false", f))
                      ELSE wlog \o <<Called("data-sets", "theme=false", f),
                                     Called("data-sets", "theme=true", t)>>
        /\ resources' = [resources EXCEPT !.datasets =
                            IF f.kind = "raise" THEN << >> ELSE datasets(f, t)]
    /\ wpc' = "operators"
    /\ UNCHANGED <<handler, wdata, w_alpha_id, response, last_alpha_id, served>>
    /\ UNCHANGED exceptWeb

ResourcesOperators ==
    /\ wpc = "operators"
    /\ \E file \in OperatorFiles :
        /\ wlog' = Append(wlog, Called("operaters.csv", "read", file))
        /\ resources' = resources @@ [operators |-> operators(file)]
    /\ wpc' = "profile"
    /\ UNCHANGED <<handler, wdata, w_alpha_id, response, last_alpha_id, served>>
    /\ UNCHANGED exceptWeb

\* The profile block has an except clause and no else: an answer other than
\* 200 leaves resources without the key.
ResourcesProfile ==
    /\ wpc = "profile"
    /\ \E a \in ProfileAnswers :
        /\ wlog' = Append(wlog, Called("users/self", "get", a))
        /\ resources' =
              IF a.kind \in {"raise", "nojson"}
                 THEN resources @@ [user_profile |-> DefaultProfile]
              ELSE IF a.status = 200
                 THEN resources @@ [user_profile |-> user_profile(a)]
              ELSE resources
    /\ wpc' = "respond"
    /\ UNCHANGED <<handler, wdata, w_alpha_id, response, last_alpha_id, served>>
    /\ UNCHANGED exceptWeb

\* The fixed lists are added and the resources are sent.
ResourcesRespond ==
    /\ wpc = "respond"
    /\ resources' = resources @@
          [instruments |-> <<"EQUITY", "FUTURES">>,
           regions |-> <<"USA", "CHN", "EUR", "JPN", "GLB">>,
           delays |-> <<0, 1>>]
    /\ response' = Success([success |-> TRUE, resources |-> resources'])
    /\ wpc' = "responded"
    /\ UNCHANGED <<handler, wdata, wlog, w_alpha_id, last_alpha_id, served>>
    /\ UNCHANGED exceptWeb

(***************************************************************************)
(* generate_alpha and optimize_alpha                                       *)
(***************************************************************************)
\* The lines an answer of the language model is made of.
ContentLines == {"", "# Alpha", "Your alpha expression:", "Optimized expression:", "rank(close)"}

Contents == SeqsUpTo(ContentLines, MaxLines)

LlmAnswers ==
    {[kind |-> k, status |-> 200, content |-> << >>] : k \in {"nojson"}}
        \cup {[kind |-> "raise", status |-> 0, content |-> << >>],
              [kind |-> "status", status |-> 500, content |-> << >>]}
        \cup {[kind |-> "content", status |-> 200, content |-> c] : c \in Contents}

\* line and not line.startswith('#') and not line.lower().startswith(word)
Plausible(line, word) ==
    /\ line # ""
    /\ line # "# Alpha"
    /\ ~(word = "your" /\ line = "Your alpha expression:")
    /\ ~(word = "optimized" /\ line = "Optimized expression:")

\* The first plausible line; the whole content when there is none.
Cleaned(content, word) ==
    IF \E k \in DOMAIN content : Plausible(content[k], word)
       THEN <<content[CHOOSE k \in DOMAIN content :
                  /\ Plausible(content[k], word)
                  /\ \A h \in 1..(k - 1) : ~Plausible(content[h], word)]>>
       ELSE content

\* What the handler answers once the provider is known and the model was asked.
LlmResponse(a, word) ==
    IF a.kind = "raise" THEN Failure(500, ExceptionText("exception"))
    ELSE IF a.status # 200 THEN Failure(500, "AI API error")
    ELSE IF a.kind = "nojson" THEN Failure(500, ExceptionText("JSONDecodeError"))
    ELSE Success([success |-> TRUE, expression |-> Cleaned(a.content, word)])

GenerateAlpha ==
    /\ wpc = "start"
    /\ handler = "generate_alpha"
    /\ IF wdata.kind = "raises"
          THEN response' = Failure(500, ExceptionText("BadRequest")) /\ UNCHANGED wlog
       ELSE IF wdata.kind = "null"
          THEN response' = Failure(500, ExceptionText("AttributeError")) /\ UNCHANGED wlog
       ELSE IF wdata.provider \notin {"ollama", "deepseek", "openai"}
          THEN response' = Failure(400, "Unknown provider") /\ UNCHANGED wlog
       ELSE \E a \in LlmAnswers :
                /\ wlog' = Append(wlog, Called("chat/completions", wdata.provider, a))
                /\ response' = LlmResponse(a, "your")
    /\ wpc' = "responded"
    /\ UNCHANGED <<handler, wdata, resources, w_alpha_id, last_alpha_id, served>>
    /\ UNCHANGED exceptWeb

\* The chain of provider tests has no else here: with another provider
\* api_url is unbound when requests.post is called.
OptimizeAlpha ==
    /\ wpc = "start"
    /\ handler = "optimize_alpha"
    /\ IF wdata.kind = "raises"
          THEN response' = Failure(500, ExceptionText("BadRequest")) /\ UNCHANGED wlog
       ELSE IF wdata.kind = "null"
          THEN response' = Failure(500, ExceptionText("AttributeError")) /\ UNCHANGED wlog
       ELSE IF wdata.provider \notin {"ollama", "deepseek", "openai"}
          THEN response' = Failure(500, ExceptionText("UnboundLocalError")) /\ UNCHANGED wlog
       ELSE \E a \in LlmAnswers :
                /\ wlog' = Append(wlog, Called("chat/completions", wdata.provider, a))
                /\ response' = LlmResponse(a, "optimized")
    /\ wpc' = "responded"
    /\ UNCHANGED <<handler, wdata, resources, w_alpha_id, last_alpha_id, served>>
    /\ UNCHANGED exceptWeb

(***************************************************************************)
(* backtest_alpha                                                          *)
(***************************************************************************)
\* create_alpha: it raises or returns an id, which may be empty.
CreateAnswers ==
    {[kind |-> "raise", id |-> NoId]}
        \cup {[kind |-> "id", id |-> a] : a \in {NoId} \cup WebAlphaIds}

\* simulate_alpha: it raises or returns the id of a simulation, or nothing.
SimulateAnswers ==
    {[kind |-> "raise", id |-> None], [kind |-> "id", id |-> None],
     [kind |-> "id", id |-> "simulation"]}

\* The test of the id is left out: the simulation is asked for in any case.
BacktestCreateUnchecked ==
    /\ wpc = "create"
    /\ IF wdata.kind = "null"
          THEN /\ response' = Failure(500, ExceptionText("AttributeError"))
               /\ wpc' = "responded"
               /\ UNCHANGED <<wlog, w_alpha_id>>
          ELSE \E r \in CreateAnswers :
                /\ wlog' = Append(wlog, Called("create_alpha", "expression", r))
                /\ IF r.kind = "raise"
                      THEN /\ response' = Failure(500, "Failed to backtest")
                           /\ wpc' = "responded"
                           /\ UNCHANGED w_alpha_id
                      ELSE /\ w_alpha_id' = r.id
                           /\ wpc' = "simulate"
                           /\ UNCHANGED response
    /\ UNCHANGED <<handler, wdata, resources, last_alpha_id, served>>
    /\ UNCHANGED exceptWeb

\* data.get on a body that is None raises; else create_alpha is called and
\* the simulation is reached only with an id that is not empty.
BacktestCreate ==
    /\ wpc = "create"
    /\ IF wdata.kind = "null"
          THEN /\ response' = Failure(500, ExceptionText("AttributeError"))
               /\ wpc' = "responded"
               /\ UNCHANGED <<wlog, w_alpha_id>>
          ELSE \E r \in CreateAnswers :
                /\ wlog' = Append(wlog, Called("create_alpha", "expression", r))
                /\ IF r.kind = "raise"
                      THEN /\ response' = Failure(500, "Failed to backtest")
                           /\ wpc' = "responded"
                           /\ UNCHANGED w_alpha_id
                   ELSE IF r.id = NoId
                      THEN /\ response' = Failure(500, "Failed to create alpha")
                           /\ wpc' = "responded"
                           /\ UNCHANGED w_alpha_id
                      ELSE /\ w_alpha_id' = r.id
                           /\ wpc' = "simulate"
                           /\ UNCHANGED response
    /\ UNCHANGED <<handler, wdata, resources, last_alpha_id, served>>
    /\ UNCHANGED exceptWeb

BacktestSimulate ==
    /\ wpc = "simulate"
    /\ \E r \in SimulateAnswers :
        /\ wlog' = Append(wlog, Called("simulate_alpha", w_alpha_id, r))
        /\ IF r.kind = "raise"
              THEN /\ response' = Failure(500, "Failed to backtest")
                   /\ UNCHANGED last_alpha_id
              ELSE /\ response' = Success([success |-> TRUE, alpha_id |-> w_alpha_id,
                                           simulation_id |-> r.id])
                   /\ last_alpha_id' = w_alpha_id
    /\ wpc' = "responded"
    /\ UNCHANGED <<handler, wdata, resources, w_alpha_id, served>>
    /\ UNCHANGED exceptWeb

(***************************************************************************)
(* check_simulation                                                        *)
(***************************************************************************)
PerformanceFields ==
    {"fitness", "sharpe", "turnover", "returns", "margin", "longCount", "shortCount"}

\* GET /alphas/{alpha_id}: the object of a 200 answer has a status or none,
\* and under 'is' nothing, an object with some or all of the fields, or
\* ("null") something that is no object.
AlphaAnswers ==
    {[kind |-> "raise", status |-> 0, alpha_status |-> None, is |-> "absent"],
     [kind |-> "nojson", status |-> 200, alpha_status |-> None, is |-> "absent"]}
        \cup {[kind |-> "status", status |-> st, alpha_status |-> None, is |-> "absent"] :
                 st \in {204, 404, 500}}
        \cup {[kind |-> "alpha", status |-> 200, alpha_status |-> st, is |-> d] :
                 st \in {None, "UNSUBMITTED", "ACTIVE"},
                 d \in {"absent", "null", "partial", "full"}}

\* The keys of alpha_data['is']; the value under a key is named by the key.
IsKeys(a) ==
    CASE a.is = "full" -> PerformanceFields
      [] a.is = "partial" -> {"fitness", "sharpe"}
      [] OTHER -> {}

\* is_data.get(field) for each of the seven fields
performance(a) == [f \in PerformanceFields |-> IF f \in IsKeys(a) THEN f ELSE None]

\* The status of the alpha is not passed on.
check_responseWithoutStatus(a) ==
    Success([success |-> TRUE, status |-> None, performance |-> performance(a)])

\* The body of the success answer: alpha_data.get('status') and the fields.
check_response(a) ==
    Success([success |-> TRUE, status |-> a.alpha_status, performance |-> performance(a)])

\* request.json is read and the alpha_id is tested before a session is made.
CheckValidate ==
    /\ wpc = "start"
    /\ handler = "check_simulation"
    /\ IF wdata.kind = "raises"
          THEN /\ response' = Failure(500, ExceptionText("BadRequest"))
               /\ wpc' = "responded"
               /\ UNCHANGED w_alpha_id
       ELSE IF wdata.kind = "null"
          THEN /\ response' = Failure(500, ExceptionText("AttributeError"))
               /\ wpc' = "responded"
               /\ UNCHANGED w_alpha_id
       ELSE IF wdata.alpha_id = NoId
          THEN /\ response' = Failure(400, "Missing alpha_id")
               /\ wpc' = "responded"
               /\ UNCHANGED w_alpha_id
       ELSE /\ w_alpha_id' = wdata.alpha_id
            /\ wpc' = "session"
            /\ UNCHANGED response
    /\ UNCHANGED <<handler, wdata, wlog, resources, last_alpha_id, served>>
    /\ UNCHANGED exceptWeb

\* The status of the answer is not looked at.
CheckFetchAnyStatus ==
    /\ wpc = "fetch"
    /\ \E a \in AlphaAnswers :
        /\ wlog' = Append(wlog, Called("alphas", w_alpha_id, a))
        /\ response' =
              IF a.kind = "raise" THEN Failure(500, ExceptionText("exception"))
              ELSE IF a.kind = "nojson" THEN Failure(500, ExceptionText("JSONDecodeError"))
              ELSE IF a.is = "null" THEN Failure(500, ExceptionText("AttributeError"))
              ELSE check_response(a)
    /\ wpc' = "responded"
    /\ UNCHANGED <<handler, wdata, resources, w_alpha_id, last_alpha_id, served>>
    /\ UNCHANGED exceptWeb

\* The alpha is fetched; only a 200 answer is read.
CheckFetch ==
    /\ wpc = "fetch"
    /\ \E a \in AlphaAnswers :
        /\ wlog' = Append(wlog, Called("alphas", w_alpha_id, a))
        /\ response' =
              IF a.kind = "raise" THEN Failure(500, ExceptionText("exception"))
              ELSE IF a.status # 200 THEN Failure(500, "Failed to fetch alpha details")
              ELSE IF a.kind = "nojson" THEN Failure(500, ExceptionText("JSONDecodeError"))
              ELSE IF a.is = "null" THEN Failure(500, ExceptionText("AttributeError"))
              ELSE check_response(a)
    /\ wpc' = "responded"
    /\ UNCHANGED <<handler, wdata, resources, w_alpha_id, last_alpha_id, served>>
    /\ UNCHANGED exceptWeb

WebNext ==
    \/ Receive
    \/ CreateSession
    \/ ResourcesDatasets
    \/ ResourcesOperators
    \/ ResourcesProfile
    \/ ResourcesRespond
    \/ GenerateAlpha
    \/ OptimizeAlpha
    \/ BacktestCreate
    \/ BacktestSimulate
    \/ CheckValidate
    \/ CheckFetch

(***************************************************************************)
(* submit_alpha and batch_submit_alphas                                    *)
(***************************************************************************)
\* GET /alphas/{id} of check_alpha_exists: the status, or 0 when the request
\* raises.
ExistsAnswers == {200, 404, 500, 0}

\* check_alpha_exists
check_alpha_exists(a) == a = 200

\* What the text of the response to the submission can be: nothing, no JSON,
\* {'detail': 'Not found.'}, or one of the JSON objects.
SubmitBodies ==
    {Body(k, << >>) : k \in {"notext", "notjson", "notfound"}} \cup JsonBodies

NoBody == Body("unbound", << >>)

RECURSIVE SubmitChecks(_, _)
\* The loop over res_json['is']['checks'] of submit_alpha: "True", "False",
\* or "KeyError" when a failing check has no limit or no value to print.
SubmitChecks(cs, k) ==
    IF k > Len(cs) THEN "True"
    ELSE IF cs[k].name = ALREADY_SUBMITTED THEN "False"
    ELSE IF cs[k].result = "FAIL"
         THEN IF cs[k].limit = Absent \/ cs[k].value = Absent THEN "KeyError" ELSE "False"
    ELSE SubmitChecks(cs, k + 1)

\* What submit_alpha makes of the response submit returned; the status of
\* the response is not looked at.
submit_alpha(r, body) ==
    IF r.kind = "None" THEN "False"
    ELSE IF body.kind \in {"notext", "notjson", "notfound"} THEN "False"
    ELSE IF body.kind = "checks" THEN SubmitChecks(body.checks, 1)
    ELSE "True"

\* The lists batch_submit_alphas is called with: ids that differ, as the
\* eligible list and the selection set produce them.
BatchLists ==
    {q \in SeqsUpTo(SubmitAlphaIds, Cardinality(SubmitAlphaIds)) :
        \A a, b \in DOMAIN q : a # b => q[a] # q[b]}

Event(ev, id) == [ev |-> ev, id |-> id]

BatchStart(ids) ==
    /\ batch_ids = ids
    /\ bi = 0
    /\ bpc = "loop"
    /\ session = 1
    /\ results = [success |-> << >>, failed |-> << >>, total |-> Len(ids)]
    /\ res = NoResponse
    /\ res_body = NoBody
    /\ batch_events = << >>
    /\ batch_returned = [success |-> << >>, failed |-> << >>, total |-> 0]

\* The frame of submit: entered with pc = "post", left with pc = "idle".
SubmitFrame(pc, id) ==
    /\ spc' = pc
    /\ sub_alpha_id' = id
    /\ s' = session
    /\ cur' = session
    /\ new_session' = NoSession
    /\ result' = NoResponse
    /\ returned' = NoResponse
    /\ attempt_count' = 1
    /\ req' = NoRequest
    /\ posts' = 0
    /\ gets' = 0
    /\ headers_seen' = 0
    /\ header_secs' = 0
    /\ rate_slept' = 0
    /\ cooldowns' = 0
    /\ cooldown_slept' = 0
    /\ failures' = 0
    /\ relogins' = 0
    /\ UNCHANGED sessions

\* results['success'].append or results['failed'].append
Recorded(id, success) ==
    IF success
       THEN [results EXCEPT !.success = Append(@, id)]
       ELSE [results EXCEPT !.failed = Append(@, id)]

\* submit_alpha is called for the next id; it gives up at once when the
\* alpha does not exist, else it calls submit.
BatchCheckExists ==
    /\ bpc = "loop"
    /\ bi < Len(batch_ids)
    /\ \E a \in ExistsAnswers :
        IF check_alpha_exists(a)
           THEN /\ bpc' = "submit"
                /\ SubmitFrame("post", batch_ids[bi + 1])
                /\ batch_events' = Append(batch_events, Event("start", batch_ids[bi + 1]))
                /\ UNCHANGED <<bi, results>>
           ELSE /\ results' = Recorded(batch_ids[bi + 1], FALSE)
                /\ bi' = bi + 1
                /\ batch_events' = batch_events \o <<Event("start", batch_ids[bi + 1]),
                                                    Event("finish", batch_ids[bi + 1])>>
                /\ UNCHANGED <<bpc, submitVars>>
    /\ res' = NoResponse
    /\ res_body' = NoBody
    /\ UNCHANGED <<batch_ids, session, batch_returned>>
    /\ UNCHANGED exceptBatch

\* submit has returned its response, or None, to submit_alpha.
BatchSubmitReturned ==
    /\ bpc = "submit"
    /\ spc = "done"
    /\ res' = returned
    /\ bpc' = "parse"
    /\ SubmitFrame("idle", NoId)
    /\ UNCHANGED <<batch_ids, bi, session, results, res_body, batch_events, batch_returned>>
    /\ UNCHANGED exceptBatch

\* A failed submission is not written down.
BatchParseSuccessOnly ==
    /\ bpc = "parse"
    /\ \E body \in SubmitBodies :
        /\ res_body' = IF res.kind = "None" THEN NoBody ELSE body
        /\ IF submit_alpha(res, body) = "KeyError"
              THEN bpc' = "raised" /\ UNCHANGED <<bi, results, batch_events>>
              ELSE /\ results' = IF submit_alpha(res, body) = "True"
                                    THEN Recorded(batch_ids[bi + 1], TRUE) ELSE results
                   /\ bi' = bi + 1
                   /\ batch_events' = Append(batch_events, Event("finish", batch_ids[bi + 1]))
                   /\ bpc' = "loop"
    /\ UNCHANGED <<batch_ids, session, res, batch_returned>>
    /\ UNCHANGED submitVars
    /\ UNCHANGED exceptBatch

\* submit_alpha reads the response and the id goes to one of the two lists;
\* a KeyError of the parse leaves the batch.
BatchParse ==
    /\ bpc = "parse"
    /\ \E body \in SubmitBodies :
        /\ res_body' = IF res.kind = "None" THEN NoBody ELSE body
        /\ IF submit_alpha(res, body) = "KeyError"
              THEN bpc' = "raised" /\ UNCHANGED <<bi, results, batch_events>>
              ELSE /\ results' = Recorded(batch_ids[bi + 1], submit_alpha(res, body) = "True")
                   /\ bi' = bi + 1
                   /\ batch_events' = Append(batch_events, Event("finish", batch_ids[bi + 1]))
                   /\ bpc' = "loop"
    /\ UNCHANGED <<batch_ids, session, res, batch_returned>>
    /\ UNCHANGED submitVars
    /\ UNCHANGED exceptBatch

\* return results
BatchReturn ==
    /\ bpc = "loop"
    /\ bi = Len(batch_ids)
    /\ batch_returned' = results
    /\ bpc' = "done"
    /\ UNCHANGED <<batch_ids, bi, session, results, res, res_body, batch_events>>
    /\ UNCHANGED submitVars
    /\ UNCHANGED exceptBatch

BatchNext ==
    \/ BatchCheckExists
    \/ BatchSubmitReturned
    \/ BatchParse
    \/ BatchReturn
    \/ SubmitPost
    \/ SubmitPoll
    \/ Relogin
    \/ RateLimitWait
    \/ RateLimitDone
    \/ SubmitReturn
    \/ SubmitCooldown

(***************************************************************************)
(* main, option 1: scan, filter, choose, confirm, submit                   *)
(***************************************************************************)
\* What can be typed at "Your choice:" once stripped and upper-cased.
SubmitChoices == {"A", "S", "C", "X"}

\* What can be typed at the confirmation prompt once stripped and
\* lower-cased.
ConfirmAnswers == {"yes", "no", "y"}

\* The lines typed at "Enter alpha numbers".
MenuSelections == SeqsUpTo({"1", "2", ",", "-"}, MaxMenuSelectionLen)

\* [item['id'] for item in eligible]
EligibleIds == [k \in DOMAIN eligible |-> eligible[k].id]

\* filter_eligible_alphas has not been called.
FilterIdle ==
    /\ alphas = << >>
    /\ i = 0
    /\ fpc = "idle"
    /\ alpha_id = NoId
    /\ reply = "none"
    /\ check_result = NoneResult
    /\ inspected = 0
    /\ eligible = << >>
    /\ already_submitted = << >>
    /\ failed_checks = << >>
    /\ checked = << >>

\* Option 1 has just been chosen at the main menu.
MenuStart ==
    /\ mpc = "fetch"
    /\ submit_choice = ""
    /\ menu_alpha_ids = << >>
    /\ menu_confirm = ""
    /\ mi = 0
    /\ submit_requests = << >>

\* alphas = get_user_alphas(session); nothing fetched: back to the menu,
\* else filter_eligible_alphas is called with the list.
MenuFetch ==
    /\ mpc = "fetch"
    /\ \E list \in AlphaLists :
        IF list = << >>
           THEN mpc' = "menu" /\ UNCHANGED filterVars
           ELSE /\ mpc' = "filter"
                /\ alphas' = list
                /\ fpc' = "loop"
                /\ UNCHANGED <<i, alpha_id, reply, check_result, inspected, eligible,
                               already_submitted, failed_checks, checked>>
    /\ UNCHANGED <<submit_choice, menu_alpha_ids, menu_confirm, mi, submit_requests>>
    /\ UNCHANGED exceptMenu

\* if not eligible: back to the menu.
MenuNoEligible ==
    /\ mpc = "filter"
    /\ fpc = "done"
    /\ eligible = << >>
    /\ mpc' = "menu"
    /\ UNCHANGED <<submit_choice, menu_alpha_ids, menu_confirm, mi, submit_requests>>
    /\ UNCHANGED filterVars
    /\ UNCHANGED exceptMenu

\* The eligible alphas are listed and the user chooses A, S, C or anything
\* else.
MenuChoice ==
    /\ mpc = "filter"
    /\ fpc = "done"
    /\ eligible # << >>
    /\ \E c \in SubmitChoices :
        /\ submit_choice' = c
        /\ mpc' = CASE c = "A" -> "confirm" [] c = "S" -> "select" [] OTHER -> "menu"
        /\ menu_alpha_ids' = IF c = "A" THEN EligibleIds ELSE menu_alpha_ids
    /\ UNCHANGED <<menu_confirm, mi, submit_requests>>
    /\ UNCHANGED filterVars
    /\ UNCHANGED exceptMenu

\* Option S: the line is parsed as in SelectInvalid and SelectParsed.
MenuSelect ==
    /\ mpc = "select"
    /\ \E str \in MenuSelections :
        IF ~ParseSelection(str).ok
           THEN mpc' = "menu" /\ UNCHANGED menu_alpha_ids
           ELSE /\ \E order \in Orders({j \in ParseSelection(str).indices :
                                            1 <= j /\ j <= Len(eligible)}) :
                    menu_alpha_ids' = [k \in DOMAIN order |-> eligible[order[k]].id]
                /\ mpc' = IF menu_alpha_ids' = << >> THEN "menu" ELSE "confirm"
    /\ UNCHANGED <<submit_choice, menu_confirm, mi, submit_requests>>
    /\ UNCHANGED filterVars
    /\ UNCHANGED exceptMenu

\* if confirm == 'yes': batch_submit_alphas(session, alpha_ids)
MenuConfirm ==
    /\ mpc = "confirm"
    /\ \E answer \in ConfirmAnswers :
        /\ menu_confirm' = answer
        /\ mpc' = IF answer = "yes" THEN "batch" ELSE "menu"
    /\ UNCHANGED <<submit_choice, menu_alpha_ids, mi, submit_requests>>
    /\ UNCHANGED filterVars
    /\ UNCHANGED exceptMenu

\* One turn of the loop of batch_submit_alphas: submit_alpha calls submit,
\* whose first statement is the POST, unless the alpha does not exist.
MenuSubmit ==
    /\ mpc = "batch"
    /\ mi < Len(menu_alpha_ids)
    /\ \E a \in ExistsAnswers :
        submit_requests' = IF check_alpha_exists(a)
                              THEN Append(submit_requests, menu_alpha_ids[mi + 1])
                              ELSE submit_requests
    /\ mi' = mi + 1
    /\ UNCHANGED <<mpc, submit_choice, menu_alpha_ids, menu_confirm>>
    /\ UNCHANGED filterVars
    /\ UNCHANGED exceptMenu

\* The batch has returned and its summary is printed.
MenuBatchReturned ==
    /\ mpc = "batch"
    /\ mi = Len(menu_alpha_ids)
    /\ mpc' = "menu"
    /\ UNCHANGED <<submit_choice, menu_alpha_ids, menu_confirm, mi, submit_requests>>
    /\ UNCHANGED filterVars
    /\ UNCHANGED exceptMenu

MenuNext ==
    \/ MenuFetch
    \/ FilterSkipNoId
    \/ FilterCheck
    \/ FilterUnchecked
    \/ FilterClassify
    \/ FilterReturn
    \/ MenuNoEligible
    \/ MenuChoice
    \/ MenuSelect
    \/ MenuConfirm
    \/ MenuSubmit
    \/ MenuBatchReturned

(***************************************************************************)
(* Specifications.                                                         *)
(***************************************************************************)
FilterInit ==
    /\ \E list \in AlphaLists : FilterStart(list)
    /\ SubmitStart(1)
    /\ AuthStart
    /\ PageStart(1)
    /\ SelectionStart(<< >>, 0)
    /\ WebStart
    /\ MenuStart
    /\ BatchStart(<< >>)

SubmitInit ==
    /\ FilterStart(<< >>)
    /\ \E id \in SubmitAlphaIds : SubmitStart(id)
    /\ AuthStart
    /\ PageStart(1)
    /\ SelectionStart(<< >>, 0)
    /\ WebStart
    /\ MenuStart
    /\ BatchStart(<< >>)

AuthInit ==
    /\ FilterStart(<< >>)
    /\ SubmitStart(1)
    /\ AuthStart
    /\ PageStart(1)
    /\ SelectionStart(<< >>, 0)
    /\ WebStart
    /\ MenuStart
    /\ BatchStart(<< >>)

FilterSpec == FilterInit /\ [][FilterNext]_vars

SubmitSpec == SubmitInit /\ [][SubmitNext]_vars

\* The thread of control always takes its next step; an answer of the server
\* is not guaranteed (the requests carry no timeout).
FairSubmitSpec == SubmitSpec /\ WF_vars(SubmitStep)

AuthSpec == AuthInit /\ [][AuthNext]_vars

PageInit ==
    /\ FilterStart(<< >>)
    /\ SubmitStart(1)
    /\ AuthStart
    /\ \E limit \in Limits : PageStart(limit)
    /\ SelectionStart(<< >>, 0)
    /\ WebStart
    /\ MenuStart
    /\ BatchStart(<< >>)

PageSpec == PageInit /\ [][PageNext]_vars

\* Every page request is answered and the loop takes its next step.
FairPageSpec == PageSpec /\ WF_vars(PageNext)

\* Every line of at most MaxSelectionLen characters over up to MaxAlphas
\* eligible alphas, and the two example lines over ten.
Selections == SeqsUpTo(SelectionChars, MaxSelectionLen)

SelectInit ==
    /\ FilterStart(<< >>)
    /\ SubmitStart(1)
    /\ AuthStart
    /\ PageStart(1)
    /\ \/ \E str \in Selections, n \in 0..MaxAlphas : SelectionStart(str, n)
       \/ \E str \in ExampleSelections : SelectionStart(str, ExampleEligible)
    /\ WebStart
    /\ MenuStart
    /\ BatchStart(<< >>)

SelectSpec == SelectInit /\ [][SelectNext]_vars

WebInit ==
    /\ FilterStart(<< >>)
    /\ SubmitStart(1)
    /\ AuthStart
    /\ PageStart(1)
    /\ SelectionStart(<< >>, 0)
    /\ WebStart
    /\ MenuStart
    /\ BatchStart(<< >>)

WebSpec == WebInit /\ [][WebNext]_vars

\* No call of submit is under way.
SubmitIdle ==
    /\ spc = "idle"
    /\ sub_alpha_id = NoId
    /\ s = 1
    /\ cur = 1
    /\ sessions = 1
    /\ new_session = NoSession
    /\ result = NoResponse
    /\ returned = NoResponse
    /\ attempt_count = 1
    /\ req = NoRequest
    /\ posts = 0 /\ gets = 0
    /\ headers_seen = 0 /\ header_secs = 0
    /\ rate_slept = 0
    /\ cooldowns = 0 /\ cooldown_slept = 0
    /\ failures = 0 /\ relogins = 0

BatchInit ==
    /\ FilterStart(<< >>)
    /\ SubmitIdle
    /\ AuthStart
    /\ PageStart(1)
    /\ SelectionStart(<< >>, 0)
    /\ WebStart
    /\ MenuStart
    /\ \E ids \in BatchLists : BatchStart(ids)

BatchSpec == BatchInit /\ [][BatchNext]_vars

MenuInit ==
    /\ FilterIdle
    /\ SubmitIdle
    /\ AuthStart
    /\ PageStart(1)
    /\ SelectionStart(<< >>, 0)
    /\ WebStart
    /\ BatchStart(<< >>)
    /\ MenuStart

MenuSpec == MenuInit /\ [][MenuNext]_vars

(***************************************************************************)
(* Properties of filter_eligible_alphas.                                   *)
(***************************************************************************)
\* The alpha alphas[i] was asked about and the iteration is over.
Handled == fpc # "parse" /\ reply # "none"
\* The data returned for alphas[i] went through lines 298-334.
Classified == Handled /\ Truthy(check_result)

HasAlreadySubmitted(cr) ==
    \E k \in 1..Len(cr.checks) : cr.checks[k].name = ALREADY_SUBMITTED
HasFail(cr) ==
    \E k \in 1..Len(cr.checks) : cr.checks[k].result = "FAIL"
FirstAlreadySubmitted(cr) ==
    CHOOSE k \in 1..Len(cr.checks) :
        /\ cr.checks[k].name = ALREADY_SUBMITTED
        /\ \A j \in 1..(k - 1) : cr.checks[j].name # ALREADY_SUBMITTED
Occurrences(list, id) == Cardinality({ k \in 1..Len(list) : list[k].id = id })
IsFailing(c) == c.result = "FAIL"
FailingChecks(cr) == SelectSeq(cr.checks, IsFailing)
HasId(a) == a.id # NoId
IdsWithId(list) ==
    LET withId == SelectSeq(list, HasId) IN [k \in 1..Len(withId) |-> withId[k].id]

\* C1: a response whose checks contain one named ALREADY_SUBMITTED puts the
\* alpha in already_submitted (once), whatever the other checks are and
\* wherever they stand, and the loop stops at that entry: the number of checks
\* looked at is the position of the first ALREADY_SUBMITTED.
C1_AlreadySubmittedShortCircuits ==
    (Classified /\ HasAlreadySubmitted(check_result)) =>
        /\ Occurrences(already_submitted, alpha_id) = 1
        /\ already_submitted[Len(already_submitted)].id = alpha_id
        /\ inspected = FirstAlreadySubmitted(check_result)

\* A failing check stands before ALREADY_SUBMITTED and the alpha is filed as
\* already submitted.
C1_Witness ==
    /\ Classified
    /\ Len(check_result.checks) = 2
    /\ check_result.checks[1].name # ALREADY_SUBMITTED
    /\ check_result.checks[1].result = "FAIL"
    /\ check_result.checks[2].name = ALREADY_SUBMITTED
    /\ Occurrences(already_submitted, alpha_id) = 1
    /\ inspected = 2

\* C2: a response with at least one FAIL and no ALREADY_SUBMITTED puts the alpha
\* in failed_checks (once) with one reason per failing check, in response order,
\* each made of the check's name, limit and value.
C2_FailedChecksCarryEveryReason ==
    (Classified /\ HasFail(check_result) /\ ~HasAlreadySubmitted(check_result)) =>
        /\ Occurrences(failed_checks, alpha_id) = 1
        /\ LET entry == failed_checks[Len(failed_checks)]
               failing == FailingChecks(check_result)
           IN /\ entry.id = alpha_id
              /\ Len(entry.reasons) = Len(failing)
              /\ \A k \in 1..Len(failing) :
                    /\ entry.reasons[k][1] = failing[k].name
                    /\ entry.reasons[k][3] =
                          (IF failing[k].limit = Absent THEN "N/A" ELSE failing[k].limit)
                    /\ entry.reasons[k][5] =
                          (IF failing[k].value = Absent THEN "N/A" ELSE failing[k].value)

\* Two different checks fail and both reasons are recorded in order.
C2_Witness ==
    /\ Classified
    /\ ~HasAlreadySubmitted(check_result)
    /\ Len(FailingChecks(check_result)) = 2
    /\ check_result.checks[1].name # check_result.checks[2].name
    /\ Occurrences(failed_checks, alpha_id) = 1
    /\ Len(failed_checks[Len(failed_checks)].reasons) = 2

\* C3: after a 200 answer with a JSON body, the alpha is in eligible exactly
\* when no check reports FAIL and no check is named ALREADY_SUBMITTED.
C3_EligibleIffAllPass ==
    (Handled /\ reply = "ok") =>
        (Occurrences(eligible, alpha_id) = 1
            <=> (~HasFail(check_result) /\ ~HasAlreadySubmitted(check_result)))

\* C10: one eligibility request per alpha that has an id, in input order; the
\* loop ends only after the whole list, whatever happened to earlier alphas.
C10_EveryAlphaChecked ==
    /\ checked = IdsWithId(SubSeq(alphas, 1, i))
    /\ fpc = "done" => i = Len(alphas)

\* The first alpha was not found eligible (failed, already submitted or not
\* checkable) and the second one was still checked and found eligible.
C10_Witness ==
    /\ fpc = "done"
    /\ checked = <<1, 2>>
    /\ Len(eligible) = 1
    /\ eligible[1].id = 2

(***************************************************************************)
(* Properties of submit.                                                   *)
(***************************************************************************)
FinalStatus(r) == r.kind = "http" /\ r.status \in {200, 403}

\* The counts of requests, headers and seconds slept, and the step that polls.
C4_Counts ==
    /\ gets <= headers_seen
    /\ (spc \in {"returned", "done"} /\ failures = 0) =>
            /\ cooldowns = 0 => posts = 1
            /\ gets = headers_seen
            /\ rate_slept = header_secs
            /\ ~HasRetryAfter(result)

C4_PollStep ==
    /\ (spc' = "poll" /\ spc # "poll") =>
            /\ HasRetryAfter(result)
            /\ rate_slept' = rate_slept + result.retry_after
    /\ gets' # gets =>
            /\ spc = "poll"
            /\ gets' = gets + 1
            /\ req' = [method |-> "GET", session |-> req.session, alpha |-> sub_alpha_id]

\* C4: with no exception and no cooldown, submit sends one POST and then one
\* GET per Retry-After header received (never more), each GET on the endpoint
\* and session of the POST and right after a sleep of the header's seconds, so
\* the seconds slept are the sum of the header values; and a 200 without the
\* header ends submit with that response.
C4_RetryAfterPolling ==
    /\ []C4_Counts
    /\ [][C4_PollStep]_vars
    /\ (spc = "ratelimit" /\ result.status = 200 /\ ~HasRetryAfter(result))
            ~> (spc = "done" /\ returned.kind = "http" /\ returned.status = 200)

\* The answers [Retry-After 2, Retry-After 0, 200]: one POST, two polls, two
\* seconds slept, success.
C4_Witness ==
    /\ spc = "done"
    /\ returned.kind = "http"
    /\ returned.status = 200
    /\ failures = 0
    /\ cooldowns = 0
    /\ posts = 1
    /\ gets = 2
    /\ headers_seen = 2
    /\ rate_slept = 2

\* C5 as stated: once a response has status 403, no POST, no GET, no cooldown
\* and no new attempt follows.
C5_Original ==
    [][(result.kind = "http" /\ result.status = 403) =>
            /\ posts' = posts
            /\ gets' = gets
            /\ cooldowns' = cooldowns
            /\ attempt_count' = attempt_count]_vars

\* C5, amended: once a response has status 403 and no Retry-After header, no
\* POST, no GET, no cooldown, no re-login and no new attempt follows, and submit
\* returns that response.
C5_ForbiddenIsFinal ==
    [][(result.kind = "http" /\ result.status = 403 /\ ~HasRetryAfter(result)) =>
            /\ posts' = posts
            /\ gets' = gets
            /\ cooldowns' = cooldowns
            /\ attempt_count' = attempt_count
            /\ relogins' = relogins
            /\ result' = result
            /\ spc' \in {"returned", "done"}
            /\ spc' = "done" => returned' = result]_vars

\* A 403 on the second attempt ends submit there.
C5_Witness ==
    /\ spc = "done"
    /\ returned.kind = "http"
    /\ returned.status = 403
    /\ attempt_count = 2
    /\ posts = 2
    /\ cooldowns = 1

C6_ExitsInv ==
    spc = "done" =>
        \/ FinalStatus(returned) /\ returned = result /\ ~HasRetryAfter(returned)
        \/ returned.kind = "None" /\ new_session = NoSession /\ failures > relogins

C6_RetryStep ==
    /\ (spc = "returned" /\ result.kind = "http" /\ ~FinalStatus(result)) =>
            /\ spc' = "post"
            /\ attempt_count' = attempt_count + 1
    /\ (spc = "except" /\ new_session' # NoSession) => spc' = "post"
    /\ spc' = "done" => spc = "returned"

C7_CooldownInv ==
    /\ cooldowns = attempt_count - 1
    /\ cooldown_slept = CooldownSeconds * cooldowns
    /\ posts = attempt_count + relogins - (IF spc = "post" THEN 1 ELSE 0)
    /\ (spc = "done" /\ failures = 0) =>
            /\ posts = cooldowns + 1
            /\ returned = result
            /\ FinalStatus(returned)

C7_CooldownStep ==
    attempt_count' # attempt_count =>
        /\ result.kind = "http"
        /\ ~FinalStatus(result)
        /\ attempt_count' = attempt_count + 1
        /\ cooldown_slept' = cooldown_slept + CooldownSeconds
        /\ posts' = posts
        /\ spc' = "post"

\* C7: every attempt that ends with a status other than 200 and 403 is followed
\* by one cooldown of 120 seconds and a new attempt that starts with a POST;
\* without exceptions, n such attempts and a 200 make n + 1 POSTs and n
\* cooldowns, and submit returns the 200.
C7_FixedCooldownRetry ==
    /\ []C7_CooldownInv
    /\ [][C7_CooldownStep]_vars

\* Two failed attempts and a 200: three POSTs, two cooldowns of 120 seconds.
C7_Witness ==
    /\ spc = "done"
    /\ returned.kind = "http"
    /\ returned.status = 200
    /\ failures = 0
    /\ attempt_count = 3
    /\ posts = 3
    /\ cooldowns = 2
    /\ cooldown_slept = 240

\* POSTs against attempts and re-logins, and the steps of the except clause.
C8_ReplayInv ==
    /\ relogins <= failures
    /\ posts = attempt_count + relogins - (IF spc = "post" THEN 1 ELSE 0)

C8_ReplayStep ==
    /\ failures' # failures => (failures' = failures + 1 /\ spc' = "except")
    /\ spc = "except" =>
            IF new_session' = NoSession
            THEN spc' = "returned" /\ result'.kind = "None" /\ relogins' = relogins
            ELSE /\ spc' = "post"
                 /\ new_session' \notin 1..sessions
                 /\ cur' = new_session'
                 /\ relogins' = relogins + 1
                 /\ sub_alpha_id' = sub_alpha_id
    /\ posts' # posts =>
            /\ posts' = posts + 1
            /\ req' = [method |-> "POST", session |-> cur, alpha |-> sub_alpha_id]

\* C8: an exception raised by a request is caught; submit logs in again and,
\* when that yields a session, sends the POST for the same alpha on the new
\* session, once per exception.
C8_ReloginAndReplay ==
    /\ []C8_ReplayInv
    /\ [][C8_ReplayStep]_vars

\* Two exceptions, two re-logins, and the last POST went out on the third
\* session and was answered 200.
C8_Witness ==
    /\ spc = "done"
    /\ returned.kind = "http"
    /\ returned.status = 200
    /\ failures = 2
    /\ relogins = 2
    /\ req = [method |-> "POST", session |-> 3, alpha |-> sub_alpha_id]

(***************************************************************************)
(* Properties of the session providers.                                    *)
(***************************************************************************)
\* C9 as stated: whichever provider is called, it returns a session exactly
\* when the authentication endpoint answers 200 or 201, and otherwise the
\* failure carries the status.
C9_Original ==
    (calls > 0 /\ auth_reply.kind = "http") =>
        /\ outcome.kind = "session" <=> auth_reply.status \in {200, 201}
        /\ outcome.kind # "session" => outcome.status = auth_reply.status

(***************************************************************************)
(* Properties of get_user_alphas.                                          *)
(***************************************************************************)
RECURSIVE Served(_)
\* What the server sent in the first k answers, in the order it sent it.
Served(k) ==
    IF k = 0 THEN << >>
    ELSE Served(k - 1) \o ResultsOf(pages[k], page_offsets[k])

FullPage(a) == a.kind = "page" /\ a.n >= page_size

Answered(a) == a.kind \notin {"raise", "nojson"}

\* The requests go to the offsets 0, 100, 200, ... and one more request is
\* made only after a full page that left the collection under the limit.
C12_Requests ==
    /\ Len(pages) = Len(page_offsets)
    /\ \A k \in 1..Len(page_offsets) : page_offsets[k] = (k - 1) * page_size
    /\ \A k \in 1..(Len(pages) - 1) :
        FullPage(pages[k]) /\ Len(Served(k)) < page_limit

\* The loop is left after the first page that is empty or short, or once the
\* limit is reached, and what is returned is what the server sent.
C12_Stops ==
    /\ all_alphas = Served(Len(pages))
    /\ (ppc = "loop" /\ pages # << >>) =>
            FullPage(pages[Len(pages)]) /\ Len(all_alphas) < page_limit
    /\ (ppc \in {"break", "done"} /\ Answered(pages[Len(pages)])) =>
            \/ ~FullPage(pages[Len(pages)])
            \/ Len(all_alphas) >= page_limit
    /\ (ppc = "done" /\ Answered(pages[Len(pages)])) => page_result = all_alphas

\* C12: get_user_alphas requests pages of 100 at the offsets 0, 100, 200, ...
\* in that order, stops after the first page that is empty or shorter than
\* 100 or as soon as the collection has reached the limit, terminates when
\* every request is answered, and returns the collected alphas in server
\* order.
C12_Pagination == [](C12_Requests /\ C12_Stops) /\ <>(ppc = "done")

\* Two full pages were collected before the limit of 150 ended the loop.
C12_Witness ==
    /\ ppc = "done"
    /\ page_limit = 150
    /\ page_offsets = <<0, 100>>
    /\ Len(page_result) = 200
    /\ page_result[200] = 200

(***************************************************************************)
(* Properties of the selection of option [S].                              *)
(***************************************************************************)
SelectedIds == {alpha_ids[k] : k \in DOMAIN alpha_ids}

SelectionParts == split(strip(selection), ",")

IsNumber(str) == int(str).ok

\* The part is start-end with two numbers around its one dash.
IsRangeAt(part, d) ==
    /\ part[d] = "-"
    /\ IsNumber(SubSeq(part, 1, d - 1))
    /\ IsNumber(SubSeq(part, d + 1, Len(part)))

WellFormed(part) == IsNumber(part) \/ \E d \in 1..Len(part) : IsRangeAt(part, d)

\* The part denotes the index j.
Covers(part, j) ==
    \/ IsNumber(part) /\ int(part).value = j
    \/ \E d \in 1..Len(part) :
        /\ IsRangeAt(part, d)
        /\ int(SubSeq(part, 1, d - 1)).value <= j
        /\ j <= int(SubSeq(part, d + 1, Len(part))).value

SelectionParsed == sel_pc \in {"none", "confirm", "batch", "cancelled"}

\* The line with one more number behind it.
With12 == selection \o <<",", "1", "2">>

\* C16: the selection line is turned into the set of 1-based indices its
\* numbers and inclusive ranges denote; only the indices between 1 and the
\* number of eligible alphas are kept, the others are dropped without an
\* error; "1,3,5-7" over ten alphas selects the positions {1,3,5,6,7}, and
\* a further "12" changes nothing.
C16_SelectionParsing ==
    /\ sel_pc = "invalid" => \E k \in DOMAIN SelectionParts : ~WellFormed(SelectionParts[k])
    /\ SelectionParsed =>
        /\ \A k \in DOMAIN SelectionParts : WellFormed(SelectionParts[k])
        /\ \A j \in 1..Len(sel_eligible) :
              sel_eligible[j].id \in SelectedIds <=>
                  \E k \in DOMAIN SelectionParts : Covers(SelectionParts[k], j)
        /\ SelectedIds \subseteq {sel_eligible[j].id : j \in 1..Len(sel_eligible)}
        /\ Len(alpha_ids) = Cardinality(SelectedIds)
        /\ Len(sel_eligible) < 12 =>
              /\ ParseSelection(With12).ok
              /\ {j \in ParseSelection(With12).indices : 1 <= j /\ j <= Len(sel_eligible)}
                    = {j \in selected_indices : 1 <= j /\ j <= Len(sel_eligible)}
        /\ selection \in ExampleSelections => SelectedIds = {1, 3, 5, 6, 7}

\* "1,3,5-7,12" over ten eligible alphas was confirmed for submission.
C16_Witness ==
    /\ sel_pc = "batch"
    /\ selection = <<"1", ",", "3", ",", "5", "-", "7", ",", "1", "2">>
    /\ Len(sel_eligible) = 10
    /\ 12 \in selected_indices
    /\ SelectedIds = {1, 3, 5, 6, 7}

(***************************************************************************)
(* Properties of get_resources.                                            *)
(***************************************************************************)
\* get_resources has answered with success.
ResourcesSent ==
    /\ handler = "get_resources"
    /\ wpc = "responded"
    /\ response.body.success

SentResources == response.body.resources

\* The answer a call of the handler received, for a call it made.
Made(call, arg) == \E k \in DOMAIN wlog : wlog[k].call = call /\ wlog[k].arg = arg

AnswerTo(call, arg) ==
    wlog[CHOOSE k \in DOMAIN wlog : wlog[k].call = call /\ wlog[k].arg = arg].answer

Fails(a) == a.kind \in {"raise", "nojson", "status"}

\* Both data-set requests were answered 200 with a list.
BothListed ==
    /\ Made("data-sets", "theme=false") /\ Made("data-sets", "theme=true")
    /\ AnswerTo("data-sets", "theme=false").kind = "results"
    /\ AnswerTo("data-sets", "theme=true").kind = "results"

\* C13: the datasets of the answer are the first 50 entries of the theme=false
\* results followed by the theme=true results, never more than 50; with 30
\* and 40 items they are the 30 theme=false items followed by the first 20
\* theme=true items.
C13_DatasetsCapped ==
    ResourcesSent =>
        /\ Len(SentResources.datasets) <= 50
        /\ BothListed =>
            LET nf == AnswerTo("data-sets", "theme=false").n
                nt == AnswerTo("data-sets", "theme=true").n
                ds == SentResources.datasets
            IN  /\ Len(ds) = IF nf + nt < 50 THEN nf + nt ELSE 50
                /\ \A k \in 1..Len(ds) :
                      ds[k] = IF k <= nf THEN [theme |-> "false", k |-> k]
                              ELSE [theme |-> "true", k |-> k - nf]
                /\ (nf = 30 /\ nt = 40) =>
                      /\ Len(ds) = 50
                      /\ ds[30] = [theme |-> "false", k |-> 30]
                      /\ ds[50] = [theme |-> "true", k |-> 20]

\* 30 theme=false and 40 theme=true data sets were listed and 50 were sent.
C13_Witness ==
    /\ ResourcesSent
    /\ BothListed
    /\ AnswerTo("data-sets", "theme=false").n = 30
    /\ AnswerTo("data-sets", "theme=true").n = 40
    /\ Len(SentResources.datasets) = 50
    /\ SentResources.datasets[31] = [theme |-> "true", k |-> 1]

\* The session was made, so the three sub-fetches were reached.
SubFetchesReached ==
    /\ handler = "get_resources"
    /\ wpc = "responded"
    /\ Made("users/self", "get")

DatasetsFailed ==
    \/ AnswerTo("data-sets", "theme=false").kind \in {"raise", "nojson"}
    \/ /\ Made("data-sets", "theme=true")
       /\ AnswerTo("data-sets", "theme=true").kind \in {"raise", "nojson"}

\* C14: the three sub-fetches are isolated: when one of them fails the
\* handler still answers success, the failing entry is its empty or default
\* value, and the entries of the other two are what they are without the
\* failure.
C14_SubFetchesIsolated ==
    SubFetchesReached =>
        /\ response.http = 200 /\ response.body.success
        /\ {"datasets", "operators", "user_profile"} \subseteq DOMAIN SentResources
        /\ SentResources.datasets =
              IF DatasetsFailed THEN << >>
              ELSE datasets(AnswerTo("data-sets", "theme=false"),
                            AnswerTo("data-sets", "theme=true"))
        /\ SentResources.operators = operators(AnswerTo("operaters.csv", "read"))
        /\ SentResources.user_profile =
              IF Fails(AnswerTo("users/self", "get")) THEN DefaultProfile
              ELSE user_profile(AnswerTo("users/self", "get"))

\* C15: every successful answer of get_resources carries a user_profile whose
\* can_submit_regular is true and whose can_submit_power_pool is a flag
\* derived from the profile, false by default, whatever the profile request
\* did (200, another status, an exception).
C15_ProfileAlwaysSent ==
    ResourcesSent =>
        /\ "user_profile" \in DOMAIN SentResources
        /\ SentResources.user_profile.can_submit_regular = TRUE
        /\ SentResources.user_profile.can_submit_power_pool =
              (AnswerTo("users/self", "get").powerPoolEligible = "true")

(***************************************************************************)
(* Properties of the handlers' answers.                                    *)
(***************************************************************************)
Responded == wpc = "responded"

ErrorTexts ==
    {"Unknown provider", "AI API error", "Failed to backtest", "Failed to create alpha",
     "Missing alpha_id", "Failed to fetch alpha details"}
        \cup {ExceptionText(w) : w \in {"ValueError", "exception", "AttributeError",
                                       "UnboundLocalError", "BadRequest", "JSONDecodeError"}}

\* An exception reached the outer try block of the handler, or the inner one
\* of backtest_alpha; those of the sub-fetches of get_resources stay inside.
ExceptionRaised ==
    \/ wdata.kind \in {"raises", "null"}
    \/ handler = "optimize_alpha" /\ wdata.provider = "other"
    \/ \E k \in DOMAIN wlog :
        \/ wlog[k].call = "create_brain_session" /\ wlog[k].answer # "session"
        \/ /\ wlog[k].call \in {"chat/completions", "alphas"}
           /\ wlog[k].answer.kind \in {"raise", "nojson"}
        \/ wlog[k].call = "alphas" /\ wlog[k].answer.kind = "alpha" /\ wlog[k].answer.is = "null"
        \/ /\ wlog[k].call \in {"create_alpha", "simulate_alpha"}
           /\ wlog[k].answer.kind = "raise"

\* C18: each of the five handlers answers with a JSON object that carries a
\* boolean success; the HTTP status is 200 exactly when success is true, else
\* it is 400 or 500 and the object carries an error string; an exception
\* raised while the request is handled becomes {success: false, error} with
\* status 500.
C18_AnswerContract ==
    /\ wpc \in {"idle", "start", "session", "datasets", "operators", "profile",
                "respond", "create", "simulate", "fetch", "responded"}
    /\ Responded =>
        /\ handler \in Handlers
        /\ response.body.success \in BOOLEAN
        /\ response.http = 200 <=> response.body.success
        /\ ~response.body.success =>
              /\ response.http \in {400, 500}
              /\ DOMAIN response.body = {"success", "error"}
              /\ response.body.error \in ErrorTexts
        /\ ExceptionRaised =>
              /\ response.http = 500
              /\ ~response.body.success
              /\ "error" \in DOMAIN response.body

\* optimize_alpha was asked for a provider it does not know and answered 500.
C18_Witness ==
    /\ Responded
    /\ handler = "optimize_alpha"
    /\ wdata.kind = "dict" /\ wdata.provider = "other"
    /\ response = Failure(500, ExceptionText("UnboundLocalError"))

(***************************************************************************)
(* Properties of backtest_alpha.                                           *)
(***************************************************************************)
BacktestCalls == <<"create_brain_session", "create_alpha", "simulate_alpha">>

\* C19: backtest_alpha authenticates, then asks for the creation of the alpha,
\* and asks for the start of the simulation only after the creation returned
\* an id that is not empty, and only for that id; when the creation returns
\* no id or raises, the answer is a failure and no simulation is asked for.
C19_CreateBeforeSimulate ==
    handler = "backtest_alpha" =>
        /\ Len(wlog) <= 3
        /\ \A k \in DOMAIN wlog : wlog[k].call = BacktestCalls[k]
        /\ Len(wlog) >= 2 => wlog[1].answer = "session"
        /\ Len(wlog) = 3 =>
              /\ wlog[2].answer.kind = "id"
              /\ wlog[2].answer.id # NoId
              /\ wlog[3].arg = wlog[2].answer.id
        /\ (Len(wlog) >= 2 /\ (wlog[2].answer.kind = "raise" \/ wlog[2].answer.id = NoId)) =>
              /\ Responded
              /\ ~response.body.success /\ response.http = 500
              /\ Len(wlog) = 2
        /\ (Responded /\ response.body.success) =>
              /\ Len(wlog) = 3
              /\ response.body.alpha_id = wlog[2].answer.id

\* The simulation was started for the id 2 that the creation returned.
C19_Witness ==
    /\ handler = "backtest_alpha"
    /\ Responded
    /\ response.body.success
    /\ Len(wlog) = 3
    /\ wlog[2].answer.id = 2
    /\ wlog[3].call = "simulate_alpha" /\ wlog[3].arg = 2

(***************************************************************************)
(* Properties of check_simulation.                                         *)
(***************************************************************************)
CheckAnswered == handler = "check_simulation" /\ Responded

Fetched == Made("alphas", w_alpha_id)

FetchAnswer == AnswerTo("alphas", w_alpha_id)

\* C20: check_simulation reports status and the seven performance fields only
\* when the fetch of the alpha answered 200; when it answered any other
\* status the answer is the failure 'Failed to fetch alpha details', which no
\* other failure uses, without status or performance data.
C20_ReportsOnlyOn200 ==
    CheckAnswered =>
        /\ ({"status", "performance"} \cap DOMAIN response.body # {}) =>
              /\ Fetched /\ FetchAnswer.kind # "raise" /\ FetchAnswer.status = 200
              /\ DOMAIN response.body = {"success", "status", "performance"}
              /\ DOMAIN response.body.performance = PerformanceFields
        /\ (Fetched /\ FetchAnswer.kind = "status") =>
              /\ FetchAnswer.status # 200
              /\ response = Failure(500, "Failed to fetch alpha details")
              /\ {"status", "performance"} \cap DOMAIN response.body = {}
        /\ (~response.body.success /\ response.body.error = "Failed to fetch alpha details") =>
              Fetched /\ FetchAnswer.kind = "status"

\* The fetch was answered 404 and the handler said so.
C20_Witness ==
    /\ CheckAnswered
    /\ Fetched
    /\ FetchAnswer.status = 404
    /\ response = Failure(500, "Failed to fetch alpha details")

\* check_simulation was asked, right after a backtest, for the id the
\* backtest returned.
RoundTrip ==
    /\ CheckAnswered
    /\ last_alpha_id # NoId
    /\ wdata.alpha_id = last_alpha_id

\* The status field of every answer of the round trip is set.
C17_Original ==
    RoundTrip =>
        /\ "status" \in DOMAIN response.body
        /\ response.body.status # None

\* C17: for an alpha id returned by the creation in backtest_alpha, a
\* check_simulation made right afterwards for that id answers with the status
\* of the fetched alpha whenever the session is made and the fetch answers 200
\* with an object whose 'is' is an object or absent; the field is null when
\* the object carries no status, and every other answer is a failure without
\* a status field.
C17_StatusPassedOn ==
    RoundTrip =>
        /\ response.body.success <=>
              (Fetched /\ FetchAnswer.kind = "alpha" /\ FetchAnswer.is # "null")
        /\ response.body.success =>
              /\ "status" \in DOMAIN response.body
              /\ response.body.status = FetchAnswer.alpha_status
        /\ ~response.body.success => "status" \notin DOMAIN response.body

\* The alpha created by the backtest was found UNSUBMITTED.
C17_Witness ==
    /\ RoundTrip
    /\ served = 2
    /\ response.body.success
    /\ response.body.status = "UNSUBMITTED"

(***************************************************************************)
(* Properties of batch_submit_alphas.                                      *)
(***************************************************************************)
Elements(q) == {q[k] : k \in DOMAIN q}

\* The ids of q are all different and stand in the order they have in ids.
InListOrder(q, ids) ==
    \A a, b \in DOMAIN q :
        a < b => \E x, y \in DOMAIN ids : x < y /\ ids[x] = q[a] /\ ids[y] = q[b]

\* submit_alpha is called for the ids in list order, each call after the
\* return of the one before, and submit works for the id of the running call.
C11_OneAfterAnother ==
    /\ Len(batch_events) = 2 * bi + (IF bpc \in {"submit", "parse", "raised"} THEN 1 ELSE 0)
    /\ \A k \in DOMAIN batch_events :
          batch_events[k] = IF k % 2 = 1
                               THEN Event("start", batch_ids[(k + 1) \div 2])
                               ELSE Event("finish", batch_ids[k \div 2])
    /\ bpc = "submit" =>
          /\ sub_alpha_id = batch_ids[bi + 1]
          /\ req # NoRequest => req.alpha = batch_ids[bi + 1]

\* Every finished id is in exactly one of the two lists.
C11_Recorded ==
    /\ Elements(results.success) \cap Elements(results.failed) = {}
    /\ Elements(results.success) \cup Elements(results.failed)
          = {batch_ids[k] : k \in 1..bi}
    /\ Len(results.success) + Len(results.failed) = bi
    /\ InListOrder(results.success, batch_ids)
    /\ InListOrder(results.failed, batch_ids)
    /\ results.total = Len(batch_ids)

\* C11: batch_submit_alphas handles the ids strictly one after another in
\* list order, and when it returns every id of the list is in exactly one of
\* results.success and results.failed, so that their lengths add up to
\* total.
C11_BatchRecordsEveryId ==
    /\ C11_OneAfterAnother
    /\ C11_Recorded
    /\ bpc = "done" =>
          /\ batch_returned = results
          /\ bi = Len(batch_ids)
          /\ \A k \in DOMAIN batch_ids :
                (batch_ids[k] \in Elements(batch_returned.success))
                    # (batch_ids[k] \in Elements(batch_returned.failed))
          /\ Len(batch_returned.success) + Len(batch_returned.failed)
                = batch_returned.total

\* The batch <<2, 1>> returned with 1 submitted and 2 failed.
C11_Witness ==
    /\ bpc = "done"
    /\ batch_ids = <<2, 1>>
    /\ batch_returned.success = <<1>>
    /\ batch_returned.failed = <<2>>
    /\ batch_returned.total = 2

(***************************************************************************)
(* Properties of the outcome of a refused submission.                      *)
(***************************************************************************)
\* The response submit handed to submit_alpha is a 403.
Forbidden(r) == r.kind = "http" /\ r.status = 403

\* The id the batch has just dealt with is written under success.
ReportedSubmitted ==
    /\ bpc \in {"loop", "done"}
    /\ bi > 0
    /\ batch_ids[bi] \in Elements(results.success)

\* The id the batch has just dealt with is written under failed only.
ReportedFailed ==
    /\ bpc \in {"loop", "done"}
    /\ bi > 0
    /\ batch_ids[bi] \in Elements(results.failed)
    /\ batch_ids[bi] \notin Elements(results.success)

\* C21: a submission whose final answer of the server is 403 is never
\* reported as submitted: whatever the body of the 403, submit_alpha returns
\* False and batch_submit_alphas writes the id under failed, not under
\* success.
C21_ForbiddenNeverSubmitted ==
    (bpc \in {"loop", "done", "raised"} /\ Forbidden(res)) => ReportedFailed

(***************************************************************************)
(* Properties of the session after a re-login.                             *)
(***************************************************************************)
\* A re-login of this run has yielded a session: the newest one is `sessions`.
SessionReplaced == sessions > 1

\* This step sends the POST or a GET of submit.
SubmitRequestSent == posts' = posts + 1 \/ gets' = gets + 1

\* This step calls submit_alpha for the next id of the batch, which sends the
\* GET of check_alpha_exists and hands `session` to submit.
NextAlphaStarted == bpc = "loop" /\ (bpc' = "submit" \/ bi' = bi + 1)

C22_Step ==
    SessionReplaced =>
        /\ SubmitRequestSent => req'.session = sessions
        /\ NextAlphaStarted => session = sessions

\* C22: once a transport failure during submit has forced a re-login that
\* yielded a session, every later request of the run (the next attempts for
\* the same alpha after a cooldown, the requests for the later alphas of the
\* batch) goes out on the newest session and none on the session that failed.
C22_SessionReplacedWholesale == [][C22_Step]_vars

(***************************************************************************)
(* Properties of option 1 of the menu.                                     *)
(***************************************************************************)
\* The ids for which a POST to /alphas/{id}/submit has been sent: by
\* check_submission_eligibility during the scan, by submit during the batch.
SubmitPosted == Elements(checked) \cup Elements(submit_requests)

\* The user chose A or S, the alpha is among the chosen ones, and the
\* confirmation was answered 'yes'.
Consented(a) ==
    /\ submit_choice \in {"A", "S"}
    /\ a \in Elements(menu_alpha_ids)
    /\ menu_confirm = "yes"

\* C23: in option 1 of the menu no POST to /alphas/{id}/submit is sent for an
\* alpha unless the user chose it with A or S and answered 'yes' to the
\* confirmation; after a scan that ends with C, or with any answer other
\* than 'yes', no alpha has had a submit request.
C23_NoSubmitWithoutConsent == \A a \in SubmitPosted : Consented(a)

(***************************************************************************)
(* Properties of the three lists of filter_eligible_alphas.                *)
(***************************************************************************)
ListedIds(list) == {list[k].id : k \in DOMAIN list}

PairwiseDisjoint ==
    /\ ListedIds(eligible) \cap ListedIds(already_submitted) = {}
    /\ ListedIds(eligible) \cap ListedIds(failed_checks) = {}
    /\ ListedIds(already_submitted) \cap ListedIds(failed_checks) = {}

\* The number of entries the three lists hold for one id.
Filed(id) ==
    Occurrences(eligible, id) + Occurrences(already_submitted, id)
        + Occurrences(failed_checks, id)

\* C24: the eligible, already_submitted and failed_checks lists never share
\* an alpha, and an alpha whose eligibility check was answered (200 with a
\* JSON body) is, once the loop has dealt with it, in exactly one of them,
\* in whatever order the response lists its checks.
C24_ListsPartition ==
    /\ PairwiseDisjoint
    /\ (Handled /\ reply = "ok") => Filed(alpha_id) = 1

(***************************************************************************)
(* Properties of the two readers of a check response.                      *)
(***************************************************************************)
\* filter_eligible_alphas would put an alpha with this response in eligible.
FilterEligible(body) == Truthy(body) /\ Parse(body).is_eligible

\* submit_alpha has read a response whose text is a JSON object.
CheckResponseRead ==
    /\ bpc \in {"loop", "done", "raised"}
    /\ res.kind = "http"
    /\ res_body \in JsonBodies

\* C25: submit_alpha and filter_eligible_alphas agree on every check
\* response: submit_alpha reports success exactly for the responses the
\* filter calls eligible, and a FAIL check without limit or value is a
\* failed check for both: submit_alpha returns False and raises nothing.
C25_ReadersAgree ==
    CheckResponseRead =>
        /\ submit_alpha(res, res_body) # "KeyError"
        /\ submit_alpha(res, res_body) = "True" <=> FilterEligible(res_body)

(***************************************************************************)
(* Properties of the length of what get_user_alphas returns.               *)
(***************************************************************************)
\* C26: get_user_alphas never returns more alphas than the limit it was
\* called with, whatever the limit and whatever the sizes of the pages the
\* server sends.
C26_NeverMoreThanLimit == ppc = "done" => Len(page_result) <= page_limit

====
